---- MODULE Spec2Model ----
(***************************************************************************)
(* Poster-composition engine of the WealthPlus poster server               *)
(* (server/utils/image.js) and the request handlers that drive it.         *)
(*                                                                         *)
(* A JavaScript string is a sequence of UTF-16 code units; here it is a    *)
(* sequence whose elements are one-code-unit strings ("a", "&", "U+2714"). *)
(***************************************************************************)
EXTENDS Integers, Sequences, FiniteSets, TLC

VARIABLES
    \* ---- generateFooterSVG called on its own (SpecText) ----
    svgArgs,        \* the arguments of the call
    svgOut,         \* what the call returned (NoSvg before it returns)
    \* ---- the font-fitting loop of generateFooterSVG, step by step (SpecFit) ----
    fitArgs,        \* fontSize, textWidth and the lengths of the four escaped lines
    allFontSize,    \* the loop variable of image.js:51
    fitPc,          \* "start" | "loop" | "done"
    \* ---- createFinalPoster calls in one Node.js process (Spec) ----
    fontBase64,         \* module-level, set once when image.js is loaded
    italicFontBase64,   \* module-level, set once when image.js is loaded
    files,              \* the file system: path -> content
    pc,                 \* per call: the await the call is suspended at
    args,               \* per call: { templatePath, person, logoPath, outputPath }
    loc,                \* per call: the local constants of createFinalPoster
    err,                \* per call: the message of the error the call rejected with
    hist,               \* per call: what the call has done so far (history)
    \* ---- one recipient of /api/send-posters (SpecSend) ----
    recipient,          \* the user document the loop of server.js:227 is at
    \* ---- the geometry of createFinalPoster on its own (SpecGeom) ----
    geom,               \* the width, the measured text width and the plan made of them
    \* ---- history of the calls of one process (SpecRepeat) ----
    produced,           \* the posters written so far, each with the inputs it was made of
    lastCall,           \* the arguments and the end of the call that returned last
    \* ---- retryOperation of utils/gcs.js called on its own (SpecRetry) ----
    retry,              \* the loop variables of the call and what it has done
    \* ---- one /api/send-posters request (SpecRequest) ----
    sendReq,            \* the request: its recipients, the loop position, the answer
    \* ---- the user store and the requests that change it (SpecServer) ----
    users,              \* the documents of the User collection
    uploads,            \* the files of uploads/ that requests have created
    reqs                \* per request: the handler, its position, its locals

textVars == <<svgArgs, svgOut>>
fitVars  == <<fitArgs, allFontSize, fitPc>>
callVars == <<fontBase64, italicFontBase64, files, pc, args, loc, err, hist>>
sendVars == <<recipient>>
geomVars == <<geom>>
histVars == <<produced, lastCall>>
serverVars == <<retry, sendReq, users, uploads, reqs>>
engineVars == <<svgArgs, svgOut, fitArgs, allFontSize, fitPc,
                fontBase64, italicFontBase64, files, pc, args, loc, err, hist,
                recipient, geom, produced, lastCall>>
vars     == <<svgArgs, svgOut, fitArgs, allFontSize, fitPc,
              fontBase64, italicFontBase64, files, pc, args, loc, err, hist,
              recipient, geom, produced, lastCall, retry, sendReq, users, uploads, reqs>>

Max(a, b) == IF a >= b THEN a ELSE b
Min(a, b) == IF a <= b THEN a ELSE b

(***************************************************************************)
(* Bounds of the model                                                     *)
(***************************************************************************)
MaxStrLen   == 2    \* longest name enumerated
MaxFontSize == 26   \* largest requested base font size
MaxLineLen  == 60   \* longest first line (in code units) given to the loop
MaxWidth    == 1000 \* widest template the geometry is planned for on its own
MaxRetries  == 4    \* largest maxRetries given to retryOperation
MaxRecipients == 2  \* most recipients the query of /api/send-posters returns

(***************************************************************************)
(* String constants of image.js                                            *)
(***************************************************************************)
StrNA == <<"N", "/", "A", " ", "|", " ", "W", "e", "a", "l", "t", "h", "P", "l", "u", "s">>
StrWealthManager == <<"W", "e", "a", "l", "t", "h", " ", "M", "a", "n", "a", "g", "e", "r", " ", "|", " ", "W", "e", "a", "l", "t", "h", "P", "l", "u", "s">>
StrHealthAdvisor == <<"H", "e", "a", "l", "t", "h", " ", "I", "n", "s", "u", "r", "a", "n", "c", "e", " ", "A", "d", "v", "i", "s", "o", "r", " ", "|", " ", "W", "e", "a", "l", "t", "h", "P", "l", "u", "s">>
StrBrandSuffix == <<" ", "|", " ", "W", "e", "a", "l", "t", "h", "P", "l", "u", "s">>
StrWealth == <<"w", "e", "a", "l", "t", "h">>
StrHealth == <<"h", "e", "a", "l", "t", "h">>
StrTagline == <<"U+2714", "U+FE0F", " ", "I", "n", "v", "e", "s", "t", "m", "e", "n", "t", "s", " ", "U+2714", "U+FE0F", " ", "I", "n", "s", "u", "r", "a", "n", "c", "e", " ", "U+2714", "U+FE0F", " ", "P", "r", "o", "p", "e", "r", "t", "i", "e", "s">>
EntAmp  == <<"&", "a", "m", "p", ";">>
EntLt   == <<"&", "l", "t", ";">>
EntGt   == <<"&", "g", "t", ";">>
EntQuot == <<"&", "q", "u", "o", "t", ";">>
EntApos == <<"&", "a", "p", "o", "s", ";">>

(***************************************************************************)
(* String primitives of JavaScript used by generateFooterSVG               *)
(***************************************************************************)
UpperCaseLetters ==
    {"A", "B", "C", "D", "E", "F", "G", "H", "I", "J", "K", "L", "M", "N", "O",
     "P", "Q", "R", "S", "T", "U", "V", "W", "X", "Y", "Z"}

LowerCaseOf ==
    ("A" :> "a") @@ ("B" :> "b") @@ ("C" :> "c") @@ ("D" :> "d") @@ ("E" :> "e") @@
    ("F" :> "f") @@ ("G" :> "g") @@ ("H" :> "h") @@ ("I" :> "i") @@ ("J" :> "j") @@
    ("K" :> "k") @@ ("L" :> "l") @@ ("M" :> "m") @@ ("N" :> "n") @@ ("O" :> "o") @@
    ("P" :> "p") @@ ("Q" :> "q") @@ ("R" :> "r") @@ ("S" :> "s") @@ ("T" :> "t") @@
    ("U" :> "u") @@ ("V" :> "v") @@ ("W" :> "w") @@ ("X" :> "x") @@ ("Y" :> "y") @@
    ("Z" :> "z")

\* String.prototype.toLowerCase
toLowerCase(s) ==
    [i \in 1..Len(s) |-> IF s[i] \in UpperCaseLetters THEN LowerCaseOf[s[i]] ELSE s[i]]

\* String.prototype.includes
includes(s, sub) ==
    \E i \in 1..(Len(s) - Len(sub) + 1) : SubSeq(s, i, i + Len(sub) - 1) = sub

\* the characters the regular expression \s and trim() treat as white space
IsWhiteSpace(ch) == ch \in {" ", "\t", "\n", "\r"}

\* s.replace(/\s+/g, ' '): every maximal run of white space becomes one space
replaceWhiteSpaceRuns(s) ==
    LET endsRun(i) == i = Len(s) \/ ~IsWhiteSpace(s[i + 1])
        kept == SelectSeq([i \in 1..Len(s) |-> i],
                          LAMBDA i : ~IsWhiteSpace(s[i]) \/ endsRun(i))
    IN  [k \in 1..Len(kept) |-> IF IsWhiteSpace(s[kept[k]]) THEN " " ELSE s[kept[k]]]

\* String.prototype.trim: s without its leading and trailing white space
trim(s) ==
    LET solid == {i \in 1..Len(s) : ~IsWhiteSpace(s[i])}
    IN  IF solid = {} THEN <<>>
        ELSE SubSeq(s, CHOOSE i \in solid : \A j \in solid : i <= j,
                    CHOOSE i \in solid : \A j \in solid : i >= j)

\* s.replace(/c/g, rep) for a one-character pattern c
RECURSIVE replaceAll(_, _, _)
replaceAll(s, c, rep) ==
    IF Len(s) = 0 THEN <<>>
    ELSE IF Len(s) = 1 THEN (IF s[1] = c THEN rep ELSE s)
    ELSE LET half == Len(s) \div 2
         IN  replaceAll(SubSeq(s, 1, half), c, rep)
                 \o replaceAll(SubSeq(s, half + 1, Len(s)), c, rep)

(***************************************************************************)
(* generateFooterSVG: designation, escaping, the four lines                *)
(***************************************************************************)
normalizeDesignation_HealthFirst(d) ==
    IF d = <<>> THEN StrNA
    ELSE LET dl == toLowerCase(d) IN
         IF includes(dl, StrHealth) THEN StrHealthAdvisor
         ELSE IF includes(dl, StrWealth) THEN StrWealthManager
         ELSE trim(replaceWhiteSpaceRuns(d)) \o StrBrandSuffix

normalizeDesignation(d) ==
    IF d = <<>> THEN StrNA
    ELSE LET dl == toLowerCase(d) IN
         IF includes(dl, StrWealth) THEN StrWealthManager
         ELSE IF includes(dl, StrHealth) THEN StrHealthAdvisor
         ELSE trim(replaceWhiteSpaceRuns(d)) \o StrBrandSuffix

\* image.js:61-63 (designation || '' is the designation itself for a string)
formattedDesignation(designation, isTeamName) ==
    IF isTeamName THEN trim(designation) ELSE normalizeDesignation(designation)

escapeXml_AmpLast(unsafe) ==
    replaceAll(replaceAll(replaceAll(replaceAll(replaceAll(unsafe,
        "<", EntLt), ">", EntGt), "\"", EntQuot), "'", EntApos), "&", EntAmp)

escapeXml(unsafe) ==
    replaceAll(replaceAll(replaceAll(replaceAll(replaceAll(unsafe,
        "&", EntAmp), "<", EntLt), ">", EntGt), "\"", EntQuot), "'", EntApos)

\* image.js:72-76, the lines before .map(escapeXml)
rawLines_PhoneBeforeTagline(name, designation, phone, isTeamName) ==
    << name,
       formattedDesignation(designation, isTeamName),
       <<"P", "h", "o", "n", "e", ":", " ">> \o phone,
       StrTagline >>

rawLines(name, designation, phone, isTeamName) ==
    << name,
       formattedDesignation(designation, isTeamName),
       StrTagline,
       <<"P", "h", "o", "n", "e", ":", " ">> \o phone >>

\* image.js:72-77
lines(name, designation, phone, isTeamName) ==
    LET raw == rawLines(name, designation, phone, isTeamName)
    IN  [i \in 1..Len(raw) |-> escapeXml(raw[i])]

(***************************************************************************)
(* generateFooterSVG: the font-fitting loop                                *)
(***************************************************************************)
MIN_FONT_SIZE == 12
textPadding == 2
totalLines == 4

\* image.js:79
maxTextWidth(textWidth) == Max(10, textWidth - textPadding * 2)

\* line.length * (size * 0.55) is evaluated in IEEE-754 doubles.  It differs
\* from the exact product len * size * 11 / 20 by far less than 1/20, so the
\* comparison with the integer maxTextWidth can differ from the exact one only
\* when the exact product equals maxTextWidth.  These are the (size, length)
\* pairs, for 13 <= size <= 33 and length <= 70, whose double product is
\* greater than the exact product; for every other pair in that range with an
\* integer exact product, the double product equals it.
DoubleProductAbove ==
    (14 :> {10, 20, 30, 40, 50, 60, 70}) @@
    (16 :> {25, 45, 50, 55}) @@
    (17 :> {20, 40, 60}) @@
    (19 :> {20, 40, 60}) @@
    (22 :> {10, 20, 30, 40, 50, 60, 70}) @@
    (24 :> {15, 30, 35, 55, 60, 65, 70}) @@
    (25 :> {4, 8, 12, 16, 20, 24, 28, 32, 36, 40, 44, 48, 52, 56, 60, 64, 68}) @@
    (27 :> {60}) @@
    (28 :> {5, 10, 15, 20, 25, 30, 35, 40, 45, 50, 55, 60, 65, 70}) @@
    (29 :> {60}) @@
    (32 :> {25, 45, 50, 55}) @@
    (33 :> {20, 40, 60})

\* image.js:83-84 for one line: (line.length * charWidth) <= maxTextWidth,
\* with charWidth = size * 0.55
lineFitsAtSize(len, size, maxWidth) ==
    \/ len * size * 11 < maxWidth * 20
    \/ /\ len * size * 11 = maxWidth * 20
       /\ ~(size \in DOMAIN DoubleProductAbove /\ len \in DoubleProductAbove[size])

\* image.js:82-85, on the lengths of the lines
fitsAtSize(size, lens, maxWidth) ==
    \A i \in DOMAIN lens : lineFitsAtSize(lens[i], size, maxWidth)

\* image.js:50
allFontSizeInitial(fontSize) == Max(fontSize, 18)

\* image.js:88, Math.max(MIN_FONT_SIZE, Math.floor(allFontSize * 0.92))
shrinkFontSize_NoFloor(size) == (size * 92) \div 100

shrinkFontSize_Keep(size) == Max(MIN_FONT_SIZE, size)

shrinkFontSize(size) == Max(MIN_FONT_SIZE, (size * 92) \div 100)

\* image.js:87, the condition of the while loop
loopContinues_IgnoreFit(size, lens, maxWidth) == size > MIN_FONT_SIZE

loopContinues(size, lens, maxWidth) ==
    size > MIN_FONT_SIZE /\ ~fitsAtSize(size, lens, maxWidth)

\* image.js:87-90, the whole loop
RECURSIVE fitFontSize(_, _, _)
fitFontSize(size, lens, maxWidth) ==
    IF loopContinues(size, lens, maxWidth)
    THEN LET next == shrinkFontSize(size)
         IN  IF next <= MIN_FONT_SIZE THEN next ELSE fitFontSize(next, lens, maxWidth)
    ELSE size

\* Math.round(fontSize * 1.5), image.js:44
footerLineHeight(fontSize) == (3 * fontSize + 1) \div 2

NoSvg == [made |-> FALSE]

\* image.js:40-137: what the returned markup holds
generateFooterSVG(name, designation, phone, textWidth, footerHeight, fontSize, isTeamName) ==
    LET ls   == lines(name, designation, phone, isTeamName)
        lens == [i \in 1..Len(ls) |-> Len(ls[i])]
    IN  [ made         |-> TRUE,
          width        |-> textWidth,
          height       |-> footerHeight,
          fontRegular  |-> fontBase64,
          fontItalic   |-> italicFontBase64,
          fontSizePx   |-> fitFontSize(allFontSizeInitial(fontSize), lens, maxTextWidth(textWidth)),
          lineHeight   |-> footerLineHeight(fontSize),
          \* image.js:45-46, 92-101: the y of each <text>, in tenths of a pixel:
          \* startY = (footerHeight - totalHeight) / 2 + lineHeight * 0.6, then
          \* y += lineHeight after each line; the line of index 1 is italic
          y10          |-> [k \in 1..Len(ls) |->
                              5 * (footerHeight - footerLineHeight(fontSize) * totalLines)
                              + 6 * footerLineHeight(fontSize)
                              + (k - 1) * 10 * footerLineHeight(fontSize)],
          italicLines  |-> {k \in 1..Len(ls) : k - 1 = 1},
          text         |-> ls ]

(***************************************************************************)
(* Inputs enumerated by the specifications                                 *)
(***************************************************************************)
StringsUpTo(alphabet, n) == UNION {[1..k -> alphabet] : k \in 0..n}


DesignationSamples == {
    <<"W", "e", "a", "l", "t", "h", " ", "M", "a", "n", "a", "g", "e", "r">>,
    <<"S", "e", "n", "i", "o", "r", " ", "W", "e", "a", "l", "t", "h", " ", "A", "d", "v", "i", "s", "o", "r">>,
    <<"W", "E", "A", "L", "T", "H">>,
    <<"H", "e", "a", "l", "t", "h", " ", "I", "n", "s", "u", "r", "a", "n", "c", "e", " ", "A", "d", "v", "i", "s", "o", "r">>,
    <<"m", "y", " ", "H", "e", "A", "l", "T", "h", " ", "p", "l", "a", "n">>,
    <<"h", "e", "a", "l", "t", "h", " ", "a", "n", "d", " ", "w", "e", "a", "l", "t", "h">>,
    <<"C", "u", "s", "t", "o", "m", " ", "T", "i", "t", "l", "e">>,
    <<" ", " ", "C", "u", "s", "t", "o", "m", " ", "\t", " ", " ", "T", "i", "t", "l", "e", " ">>,
    <<"P", "a", "r", "t", "n", "e", "r">>,
    <<"R", "&", "D", " ", "<", "L", "e", "a", "d", ">">>,
    <<"&", "a", "m", "p", ";">>,
    <<"T", "e", "a", "m", ":", " ", "N", "o", "r", "t", "h">>,
    <<"i", "t", "'", "s", " ", "\"", "m", "e", "\"">> }


\* minimum 120, the 300 of utils/test_font.js, and 400, where a 45-unit line
\* at size 16 has the exact width 396 = maxTextWidth
FontData       == "base64(NotoSans-Regular.ttf)"
ItalicFontData == "base64(NotoSans-Italic.ttf)"

(***************************************************************************)
(* SpecText: generateFooterSVG called once on enumerated arguments         *)
(***************************************************************************)
TextIdle ==
    /\ svgArgs = [name |-> <<>>, designation |-> <<>>, phone |-> <<>>,
                  textWidth |-> 0, footerHeight |-> 0, fontSize |-> 0,
                  isTeamName |-> FALSE]
    /\ svgOut = NoSvg

FitIdle ==
    /\ fitArgs = [fontSize |-> 0, textWidth |-> 0, lens |-> <<0, 0, 0, 0>>]
    /\ allFontSize = 0
    /\ fitPc = "done"

CallGenerateFooterSVG ==
    /\ svgOut = NoSvg
    /\ svgOut' = generateFooterSVG(svgArgs.name, svgArgs.designation, svgArgs.phone,
                                   svgArgs.textWidth, svgArgs.footerHeight,
                                   svgArgs.fontSize, svgArgs.isTeamName)
    /\ UNCHANGED <<svgArgs, fitVars, callVars, sendVars, geomVars, histVars, serverVars>>

(***************************************************************************)
(* SpecFit: the loop of image.js:87-90, one iteration per step             *)
(***************************************************************************)
\* image.js:50-51
FitStart ==
    /\ fitPc = "start"
    /\ allFontSize' = allFontSizeInitial(fitArgs.fontSize)
    /\ fitPc' = "loop"
    /\ UNCHANGED <<fitArgs, textVars, callVars, sendVars, geomVars, histVars, serverVars>>

\* image.js:88-89: one pass through the body
FitShrink ==
    /\ fitPc = "loop"
    /\ loopContinues(allFontSize, fitArgs.lens, maxTextWidth(fitArgs.textWidth))
    /\ allFontSize' = shrinkFontSize(allFontSize)
    /\ fitPc' = IF allFontSize' <= MIN_FONT_SIZE THEN "done" ELSE "loop"
    /\ UNCHANGED <<fitArgs, textVars, callVars, sendVars, geomVars, histVars, serverVars>>

\* image.js:87: the condition is false, the loop is left
FitExit ==
    /\ fitPc = "loop"
    /\ ~loopContinues(allFontSize, fitArgs.lens, maxTextWidth(fitArgs.textWidth))
    /\ fitPc' = "done"
    /\ UNCHANGED <<fitArgs, allFontSize, textVars, callVars, sendVars, geomVars, histVars, serverVars>>

(***************************************************************************)
(* createFinalPoster: files, images and the geometry of image.js:191-208   *)
(***************************************************************************)
CallIds == {1, 2}     \* the calls that can be in progress at the same time

Absent  == [kind |-> "absent"]      \* no file at the path
Corrupt == [kind |-> "corrupt"]     \* a file that is not a decodable image
NoImage == [kind |-> "none"]        \* a local that is not assigned yet
Image(id, w, h) == [kind |-> "image", id |-> id, w |-> w, h |-> h]

TemplateA    == "uploads/templateA"     \* a decodable template, wider than 800
TemplateB    == "uploads/templateB"     \* a decodable template, narrower than 800
TemplateBad  == "uploads/notAnImage"    \* exists, not an image
LogoFile     == "assets/logo.png"
PhotoOk      == "uploads/photo.jpeg"
PhotoBad     == "uploads/broken.jpeg"   \* exists, not an image
PhotoGone    == "uploads/nophoto.jpeg"  \* does not exist
OutputPaths  == {"output/final_1.jpeg", "output/final_2.jpeg"}
TempPhoto    == "uploads/u1_gcs.jpeg"   \* a photo downloaded for one recipient

\* image.js:179
tempTemplatePath(templatePath) == templatePath \o "_temp"

TemplatePaths == {TemplateA, TemplateB, TemplateBad, "uploads/gone"}   \* the last does not exist
AllPaths ==
    TemplatePaths \cup {tempTemplatePath(t) : t \in TemplatePaths}
        \cup {LogoFile, PhotoOk, PhotoBad, PhotoGone, TempPhoto} \cup OutputPaths

InitialFiles ==
    [p \in AllPaths |->
        CASE p = TemplateA   -> Image("templateA", 1600, 1200)
          [] p = TemplateB   -> Image("templateB", 500, 700)
          [] p = TemplateBad -> Corrupt
          [] p = LogoFile    -> Image("logo", 512, 256)
          [] p = PhotoOk     -> Image("photo", 300, 400)
          [] p = PhotoBad    -> Corrupt
          [] OTHER           -> Absent]

\* sharp(input).resize({ width: 800 }): the width becomes 800 and the height
\* follows the aspect ratio, rounded
resizeToWidth(img, w) ==
    Image(img.id, w, (2 * img.h * w + img.w) \div (2 * img.w))

\* image.js:191-208
photoSize(width)     == (width * 18) \div 100
geomFontSize(width)  == (width * 22 + 500) \div 1000
logoSize(width)      == (width * 15) \div 100
photoLeft   == 40
textLeft(width)      == photoLeft + photoSize(width) + 20
lineWidth   == 4
lineGap     == 20
rightMargin == 24
reservedRight_NoLogo(width) == lineGap + lineWidth + rightMargin

reservedRight(width) == lineGap + lineWidth + logoSize(width) + rightMargin
\* Math.floor(width * 0.35) in IEEE-754 doubles: at these widths the product
\* is just below the integer width * 35 / 100 (180 * 0.35 is 62.99999999999999)
floor35_TimesThreeAndHalf(width) == (width * 35) \div 10

floor35(width) ==
    IF width \in {180, 340, 360, 660, 680, 700, 720} THEN (width * 35) \div 100 - 1 ELSE (width * 35) \div 100

\* image.js:203-204
geomTextWidth_NoMinimum(width) ==
    Max((width * 38) \div 100, width - textLeft(width) - reservedRight(width))

geomTextWidth(width) ==
    LET first == Max((width * 38) \div 100, width - textLeft(width) - reservedRight(width))
    IN  IF first < 120 THEN Max(120, floor35(width)) ELSE first
geomLineHeight(width)     == (geomFontSize(width) * 118 + 50) \div 100
requiredTextHeight(width) == geomLineHeight(width) * 4
geomFooterHeight_TextOnly(width) == requiredTextHeight(width) + 18

geomFooterHeight(width) ==
    Max(Max(photoSize(width), requiredTextHeight(width)), logoSize(width)) + 18

\* image.js:246-251, from the width of the template and the width measured
\* on the rendered text layer (textMetadata.width)
lineX(width, textMetadataWidth) ==
    Min(textLeft(width) + geomTextWidth(width) + 8,
        textLeft(width) + textMetadataWidth + 10 + 8)
logoXCentered_NoClamp(width, textMetadataWidth) ==
    lineX(width, textMetadataWidth) + lineWidth + 16

logoXCentered(width, textMetadataWidth) ==
    Min(lineX(width, textMetadataWidth) + lineWidth + 16, width - logoSize(width) - rightMargin)

\* image.js:253
lineY_FromPhoto(width) == (geomFooterHeight(width) - photoSize(width)) \div 2

lineY(width) == (geomFooterHeight(width) - logoSize(width)) \div 2

\* image.js:43-46 for the arguments createFinalPoster passes: the height of
\* the four lines as generateFooterSVG lays them out, and footerHeight minus
\* that height, which is twice verticalPadding
footerTotalHeight(width) == footerLineHeight(geomFontSize(width)) * totalLines

\* image.js:191-208 and 246-253 together
geometryPlan(width, textMetadataWidth) ==
    [ width              |-> width,
      photoSize          |-> photoSize(width),
      fontSize           |-> geomFontSize(width),
      logoSize           |-> logoSize(width),
      photoLeft          |-> photoLeft,
      textLeft           |-> textLeft(width),
      reservedRight      |-> reservedRight(width),
      textWidth          |-> geomTextWidth(width),
      \* image.js:204: the alternative to 120 of the fallback
      fallbackFloor      |-> floor35(width),
      lineHeight         |-> geomLineHeight(width),
      requiredTextHeight |-> requiredTextHeight(width),
      footerHeight       |-> geomFooterHeight(width),
      totalHeight        |-> footerTotalHeight(width),
      paddingTwice       |-> geomFooterHeight(width) - footerTotalHeight(width),
      textMetadataWidth  |-> textMetadataWidth,
      lineX              |-> lineX(width, textMetadataWidth),
      logoX              |-> logoXCentered(width, textMetadataWidth),
      lineY              |-> lineY(width),
      \* image.js:254: the divider is as tall as the logo
      lineHeightSVG      |-> logoSize(width),
      \* image.js:221-222: the text layer is the markup rendered at the height
      \* it declares, footerHeight
      textMetadataHeight |-> geomFooterHeight(width),
      \* image.js:268-271: the tops of the photo, text and logo layers
      photoTop           |-> (geomFooterHeight(width) - photoSize(width)) \div 2,
      textTop            |-> (geomFooterHeight(width) - geomFooterHeight(width)) \div 2,
      logoTop            |-> (geomFooterHeight(width) - logoSize(width)) \div 2 ]

(***************************************************************************)
(* createFinalPoster: arguments                                            *)
(***************************************************************************)
Person(name, photo, designation, teamName, phone) ==
    [name |-> name, photo |-> photo, designation |-> designation,
     teamName |-> teamName, phone |-> phone]

StrPhone == <<"9", "8">>

Persons == {
    \* a designation that is rewritten
    Person(<<"A", "n", "n">>, PhotoOk, <<"W", "e", "a", "l", "t", "h">>, <<>>, StrPhone),
    \* a free designation with markup characters
    Person(<<"B", "o">>, PhotoOk, <<"R", "&", "D">>, <<>>, StrPhone),
    \* a team name with surrounding blanks, and a designation
    Person(<<"C", "y">>, PhotoOk, <<"H", "e", "a", "l", "t", "h">>,
           <<" ", "W", "e", "a", "l", "t", "h", " ", "S", "q", "u", "a", "d", " ">>, StrPhone),
    \* a blank team name
    Person(<<"D", "i">>, PhotoOk, <<"P", "a", "r", "t", "n", "e", "r">>, <<" ", " ">>, StrPhone),
    \* a team name and no designation
    Person(<<"E", "d">>, PhotoOk, <<>>, <<"A", "l", "p", "h", "a">>, StrPhone),
    \* no name
    Person(<<>>, PhotoOk, <<"P", "a", "r", "t", "n", "e", "r">>, <<>>, StrPhone),
    \* no photo path
    Person(<<"F", "a", "y">>, "", <<"P", "a", "r", "t", "n", "e", "r">>, <<>>, StrPhone),
    \* neither designation nor team name
    Person(<<"G", "u", "s">>, PhotoOk, <<>>, <<>>, StrPhone),
    \* a photo that cannot be decoded, a photo file that is missing
    Person(<<"H", "a", "l">>, PhotoBad, <<"P", "a", "r", "t", "n", "e", "r">>, <<>>, <<>>),
    Person(<<"I", "d", "a">>, PhotoGone, <<"P", "a", "r", "t", "n", "e", "r">>, <<>>, <<>>) }

\* the argument objects a caller passes; '' stands for a parameter left out.
\* The narrow template is used for the posters of one person.
CallArgs ==
    { a \in [ templatePath : TemplatePaths \cup {""},
              person       : Persons,
              logoPath     : {LogoFile},
              outputPath   : OutputPaths ] :
        a.templatePath = TemplateB => a.person.name = <<"A", "n", "n">> }

NoArgs == [ templatePath |-> "", person |-> Person(<<>>, "", <<>>, <<>>, <<>>),
            logoPath |-> "", outputPath |-> "" ]

(***************************************************************************)
(* createFinalPoster: error messages, as sequences of words                *)
(***************************************************************************)
NoError == <<>>
MsgTemplateNotFound(path) == <<"Template", "file", "not", "found:", path>>
MsgNoEntry(op, path)      == <<"ENOENT:", "no", "such", "file", "or", "directory,", op, path>>
MsgStageFailed(stage)     == <<stage, "failed">>

\* image.js:171-173
personError(person) ==
    IF person.name = <<>> \/ person.photo = "" \/ person.designation = <<>>
    THEN <<"Missing", "required", "person", "information">>
    ELSE NoError

\* image.js:167-169
parametersError(a) ==
    IF a.templatePath = "" \/ a.logoPath = "" \/ a.outputPath = ""
    THEN <<"Missing", "required", "parameters">>
    ELSE NoError

\* image.js:210
personIsTeamName(person) ==
    person.teamName # <<>> /\ trim(person.teamName) # <<>>

\* image.js:213: the second argument given to generateFooterSVG
footerDesignation_Always(person) == person.designation

footerDesignation(person) ==
    IF personIsTeamName(person) THEN person.teamName ELSE person.designation

\* image.js:211-219
footerSVGFor_LazyFont(person, width) ==
    LET svg == generateFooterSVG(person.name, footerDesignation(person), person.phone,
                                 geomTextWidth(width), geomFooterHeight(width),
                                 geomFontSize(width), personIsTeamName(person))
    IN  IF \A p \in OutputPaths : files[p] = Absent
        THEN [svg EXCEPT !.fontRegular = ""]
        ELSE svg

footerSVGFor(person, width) ==
    generateFooterSVG(person.name, footerDesignation(person), person.phone,
                      geomTextWidth(width), geomFooterHeight(width),
                      geomFontSize(width), personIsTeamName(person))

\* fs.promises.copyFile(src, dst) without flags: the error it rejects with;
\* an existing dst is overwritten
copyFileError_Exclusive(f, src, dst) ==
    IF f[src] = Absent THEN MsgNoEntry("copyfile", src)
    ELSE IF f[dst] # Absent THEN <<"EEXIST:", "file", "already", "exists,", "copyfile", dst>>
    ELSE NoError

copyFileError(f, src, dst) ==
    IF f[src] = Absent THEN MsgNoEntry("copyfile", src) ELSE NoError

\* sharp(path): the decoded image, or the error sharp rejects with
readError(f, path) ==
    IF f[path] = Absent THEN <<"Input", "file", "is", "missing:", path>>
    ELSE IF f[path] = Corrupt THEN <<"Input", "file", "contains", "unsupported", "image", "format">>
    ELSE NoError

\* image.js:259-274: the footer band, the four layers composited on it
\* with their top and left
footerBand(l) ==
    LET fh == geomFooterHeight(l.width) IN
    [ kind  |-> "footer",
      w     |-> l.width,
      h     |-> fh,
      photo |-> [ input |-> l.circularPhoto,
                  top   |-> (fh - photoSize(l.width)) \div 2,
                  left  |-> photoLeft ],
      text  |-> [ input  |-> l.textBuffer,
                  markup |-> l.footerSVG,
                  top    |-> (fh - l.textMetadata.height) \div 2,
                  left   |-> textLeft(l.width) ],
      line  |-> [ input |-> l.lineBuffer,
                  top   |-> lineY(l.width),
                  left  |-> l.lineX ],
      logo  |-> [ input |-> l.resizedLogo,
                  top   |-> (fh - logoSize(l.width)) \div 2,
                  left  |-> l.logoX ] ]

\* image.js:276-289: the encoded final canvas, the resized template and the
\* footer band composited on it
finalImage_TemplateHeight(l) ==
    [ kind     |-> "poster",
      w        |-> l.width,
      h        |-> l.height,
      template |-> [input |-> l.templateResized, top |-> 0, left |-> 0],
      footer   |-> [input |-> l.gradientFooterBuffer, top |-> l.height, left |-> 0] ]

finalImage(l) ==
    [ kind     |-> "poster",
      w        |-> l.width,
      h        |-> l.height + geomFooterHeight(l.width),
      template |-> [input |-> l.templateResized, top |-> 0, left |-> 0],
      footer   |-> [input |-> l.gradientFooterBuffer, top |-> l.height, left |-> 0] ]

(***************************************************************************)
(* createFinalPoster: the call as a sequence of steps.  JavaScript runs    *)
(* the code between two awaits without interruption; a call that is        *)
(* suspended at an await lets other calls run.                             *)
(***************************************************************************)
\* image.js:180-291: the operations in program order; pc names the one the
\* call performs next
stageOrder_WriteEarly ==
    << "copyFile", "resizeTemplate", "unlinkTemp", "templateMetadata", "textRender",
       "textMetadata", "photoMask", "write", "logoResize", "divider", "footerBand",
       "finalComposite" >>

stageOrder_LogoBeforePhoto ==
    << "copyFile", "resizeTemplate", "unlinkTemp", "templateMetadata", "textRender",
       "textMetadata", "logoResize", "photoMask", "divider", "footerBand",
       "finalComposite", "write" >>

stageOrder ==
    << "copyFile", "resizeTemplate", "unlinkTemp", "templateMetadata", "textRender",
       "textMetadata", "photoMask", "logoResize", "divider", "footerBand",
       "finalComposite", "write" >>

stageIndex(stage) == CHOOSE i \in 1..Len(stageOrder) : stageOrder[i] = stage


NoLocals ==
    [ templateResized |-> NoImage, width |-> 0, height |-> 0, footerSVG |-> NoSvg,
      textBuffer |-> NoImage, textMetadata |-> [width |-> 0, height |-> 0],
      circularPhoto |-> NoImage, resizedLogo |-> NoImage, lineX |-> 0, logoX |-> 0,
      lineBuffer |-> NoImage, gradientFooterBuffer |-> NoImage,
      finalImageBuffer |-> NoImage ]

\* the history variables of a specification that keeps no history
Untracked == [tracked |-> FALSE]

NoHist == [ stages |-> <<>>, outBefore |-> Absent, outWrites |-> 0, envFault |-> FALSE,
            filesBefore |-> InitialFiles ]

\* files after the call c has written content at path; hist counts the
\* changes the call makes to its own outputPath
WriteFile(c, path, content) ==
    /\ files' = [files EXCEPT ![path] = content]
    /\ hist' = [hist EXCEPT ![c].outWrites =
                    IF path = args[c].outputPath THEN @ + 1 ELSE @,
                  ![c].stages = Append(@, pc[c])]

\* the stage the call is at has completed
Completed(c) == hist' = [hist EXCEPT ![c].stages = Append(@, pc[c])]

\* image.js:293-296: the error is logged and rethrown
Throw(c, message) ==
    /\ pc' = [pc EXCEPT ![c] = "failed"]
    /\ err' = [err EXCEPT ![c] = message]

Advance(c) ==
    /\ pc' = [pc EXCEPT ![c] = IF stageIndex(pc[c]) = Len(stageOrder) THEN "done"
                              ELSE stageOrder[stageIndex(pc[c]) + 1]]
    /\ UNCHANGED err

fontVars == <<fontBase64, italicFontBase64>>

\* image.js:163-180: the synchronous start of the call, up to the first await
CallCreateFinalPoster(c, inputs) ==
    /\ pc[c] = "idle"
    /\ \E a \in inputs :
         /\ \A d \in CallIds \ {c} : pc[d] # "idle" => args[d].outputPath # a.outputPath
         /\ args' = [args EXCEPT ![c] = a]
         /\ loc' = [loc EXCEPT ![c] = NoLocals]
         /\ LET h == [NoHist EXCEPT !.outBefore = files[a.outputPath],
                                    !.filesBefore = files] IN
            IF parametersError(a) # NoError
            THEN /\ Throw(c, parametersError(a))
                 /\ hist' = [hist EXCEPT ![c] = h]
            ELSE IF personError(a.person) # NoError
            THEN /\ Throw(c, personError(a.person))
                 /\ hist' = [hist EXCEPT ![c] = [h EXCEPT !.stages = <<"validateParameters">>]]
            ELSE IF files[a.templatePath] = Absent
            THEN /\ Throw(c, MsgTemplateNotFound(a.templatePath))
                 /\ hist' = [hist EXCEPT ![c] =
                        [h EXCEPT !.stages = <<"validateParameters", "validatePerson">>]]
            ELSE /\ pc' = [pc EXCEPT ![c] = stageOrder[1]]
                 /\ err' = [err EXCEPT ![c] = NoError]
                 /\ hist' = [hist EXCEPT ![c] =
                        [h EXCEPT !.stages =
                            <<"validateParameters", "validatePerson", "validateTemplate">>]]
    /\ UNCHANGED <<fontVars, files, textVars, fitVars, sendVars, geomVars, histVars, serverVars>>

\* image.js:180: fs.promises.copyFile(templatePath, tempTemplatePath)
CopyFile(c) ==
    /\ pc[c] = "copyFile"
    /\ LET src == args[c].templatePath IN
       IF copyFileError(files, src, tempTemplatePath(src)) # NoError
       THEN /\ Throw(c, copyFileError(files, src, tempTemplatePath(src)))
            /\ UNCHANGED <<files, hist>>
       ELSE /\ WriteFile(c, tempTemplatePath(src), files[src])
            /\ Advance(c)
    /\ UNCHANGED <<fontVars, args, loc, textVars, fitVars, sendVars, geomVars, histVars, serverVars>>

\* image.js:182-184: sharp(tempTemplatePath).resize({ width: 800 }).toBuffer()
ResizeTemplate(c) ==
    /\ pc[c] = "resizeTemplate"
    /\ LET tmp == tempTemplatePath(args[c].templatePath) IN
       IF readError(files, tmp) # NoError
       THEN /\ Throw(c, readError(files, tmp))
            /\ UNCHANGED <<loc, hist>>
       ELSE /\ loc' = [loc EXCEPT ![c].templateResized = resizeToWidth(files[tmp], 800)]
            /\ Completed(c)
            /\ Advance(c)
    /\ UNCHANGED <<fontVars, files, args, textVars, fitVars, sendVars, geomVars, histVars, serverVars>>

\* image.js:186: fs.unlinkSync(tempTemplatePath), when the resize has resolved
UnlinkTemp(c) ==
    /\ pc[c] = "unlinkTemp"
    /\ LET tmp == tempTemplatePath(args[c].templatePath) IN
       IF files[tmp] = Absent
       THEN /\ Throw(c, MsgNoEntry("unlink", tmp))
            /\ UNCHANGED <<files, hist>>
       ELSE /\ WriteFile(c, tmp, Absent)
            /\ Advance(c)
    /\ UNCHANGED <<fontVars, args, loc, textVars, fitVars, sendVars, geomVars, histVars, serverVars>>

\* image.js:188-219: the metadata of the resized template, then the geometry
\* and the footer markup, up to the await of line 221
TemplateMetadata(c) ==
    /\ pc[c] = "templateMetadata"
    /\ loc' = [loc EXCEPT ![c].width = loc[c].templateResized.w,
                          ![c].height = loc[c].templateResized.h,
                          ![c].footerSVG =
                              footerSVGFor(args[c].person, loc[c].templateResized.w)]
    /\ Completed(c)
    /\ Advance(c)
    /\ UNCHANGED <<fontVars, files, args, textVars, fitVars, sendVars, geomVars, histVars, serverVars>>

\* image.js:221: sharp(Buffer.from(footerSVG)).png().toBuffer()
TextRender(c) ==
    /\ pc[c] = "textRender"
    /\ loc' = [loc EXCEPT ![c].textBuffer =
                  Image("text", loc[c].footerSVG.width, loc[c].footerSVG.height)]
    /\ Completed(c)
    /\ Advance(c)
    /\ UNCHANGED <<fontVars, files, args, textVars, fitVars, sendVars, geomVars, histVars, serverVars>>

\* image.js:222
TextMetadata(c) ==
    /\ pc[c] = "textMetadata"
    /\ loc' = [loc EXCEPT ![c].textMetadata =
                  [width |-> loc[c].textBuffer.w, height |-> loc[c].textBuffer.h]]
    /\ Completed(c)
    /\ Advance(c)
    /\ UNCHANGED <<fontVars, files, args, textVars, fitVars, sendVars, geomVars, histVars, serverVars>>

\* image.js:224-233: the person's photo, resized and masked to a circle
PhotoMask(c) ==
    /\ pc[c] = "photoMask"
    /\ LET photo == args[c].person.photo IN
       IF readError(files, photo) # NoError
       THEN /\ Throw(c, readError(files, photo))
            /\ UNCHANGED <<loc, hist>>
       ELSE /\ loc' = [loc EXCEPT ![c].circularPhoto =
                        Image(files[photo].id, photoSize(loc[c].width), photoSize(loc[c].width))]
            /\ Completed(c)
            /\ Advance(c)
    /\ UNCHANGED <<fontVars, files, args, textVars, fitVars, sendVars, geomVars, histVars, serverVars>>

\* image.js:235-251: the logo, resized and flattened; then the places of the
\* divider and the logo, up to the await of line 257
LogoResize(c) ==
    /\ pc[c] = "logoResize"
    /\ LET logo == args[c].logoPath IN
       IF readError(files, logo) # NoError
       THEN /\ Throw(c, readError(files, logo))
            /\ UNCHANGED <<loc, hist>>
       ELSE /\ loc' = [loc EXCEPT
                        ![c].resizedLogo =
                            Image(files[logo].id, logoSize(loc[c].width), logoSize(loc[c].width)),
                        ![c].lineX = lineX(loc[c].width, loc[c].textMetadata.width),
                        ![c].logoX = logoXCentered(loc[c].width, loc[c].textMetadata.width)]
            /\ Completed(c)
            /\ Advance(c)
    /\ UNCHANGED <<fontVars, files, args, textVars, fitVars, sendVars, geomVars, histVars, serverVars>>

\* image.js:256-257: the divider
Divider(c) ==
    /\ pc[c] = "divider"
    /\ loc' = [loc EXCEPT ![c].lineBuffer =
                  Image("line", lineWidth, logoSize(loc[c].width))]
    /\ Completed(c)
    /\ Advance(c)
    /\ UNCHANGED <<fontVars, files, args, textVars, fitVars, sendVars, geomVars, histVars, serverVars>>

\* image.js:259-274: the footer band
FooterBand(c) ==
    /\ pc[c] = "footerBand"
    /\ loc' = [loc EXCEPT ![c].gradientFooterBuffer = footerBand(loc[c])]
    /\ Completed(c)
    /\ Advance(c)
    /\ UNCHANGED <<fontVars, files, args, textVars, fitVars, sendVars, geomVars, histVars, serverVars>>

\* image.js:276-289: the final canvas
FinalComposite(c) ==
    /\ pc[c] = "finalComposite"
    /\ loc' = [loc EXCEPT ![c].finalImageBuffer = finalImage(loc[c])]
    /\ Completed(c)
    /\ Advance(c)
    /\ UNCHANGED <<fontVars, files, args, textVars, fitVars, sendVars, geomVars, histVars, serverVars>>

\* image.js:291: fs.writeFileSync(outputPath, finalImageBuffer)
WriteOutput(c) ==
    /\ pc[c] = "write"
    /\ WriteFile(c, args[c].outputPath, loc[c].finalImageBuffer)
    /\ Advance(c)
    /\ produced' = IF produced = Untracked THEN produced
                   ELSE [produced EXCEPT !.posters =
                            @ \cup {[ templatePath |-> args[c].templatePath,
                                      person       |-> args[c].person,
                                      logoPath     |-> args[c].logoPath,
                                      content      |-> loc[c].finalImageBuffer ]}]
    /\ UNCHANGED lastCall
    /\ UNCHANGED <<fontVars, args, loc, textVars, fitVars, sendVars, geomVars, serverVars>>

\* the operation the call waits for fails for a reason outside the inputs
\* (out of memory, an I/O error): the await throws, image.js:293-296
StageFails(c) ==
    /\ pc[c] \in {stageOrder[i] : i \in 1..Len(stageOrder)}
    /\ Throw(c, MsgStageFailed(pc[c]))
    /\ hist' = [hist EXCEPT ![c].envFault = TRUE]
    /\ UNCHANGED <<fontVars, files, args, loc, textVars, fitVars, sendVars, geomVars, histVars, serverVars>>

\* the caller has received the result; the call's frame is gone
Return(c) ==
    /\ pc[c] \in {"done", "failed"}
    /\ pc' = [pc EXCEPT ![c] = "idle"]
    /\ args' = [args EXCEPT ![c] = NoArgs]
    /\ loc' = [loc EXCEPT ![c] = NoLocals]
    /\ err' = [err EXCEPT ![c] = NoError]
    /\ hist' = [hist EXCEPT ![c] = NoHist]
    /\ lastCall' = IF lastCall = Untracked THEN lastCall
                   ELSE [tracked |-> TRUE, ended |-> TRUE,
                         args |-> args[c], status |-> pc[c]]
    /\ UNCHANGED produced
    /\ UNCHANGED <<fontVars, files, textVars, fitVars, sendVars, geomVars, serverVars>>

NoHistory ==
    /\ produced = Untracked
    /\ lastCall = Untracked

\* no recipient is being served, no geometry is being planned
SendIdle == recipient = [made |-> FALSE]
GeomIdle == geom = [made |-> FALSE]

\* no retryOperation, no request is in progress; the collection is empty
ServerIdle ==
    /\ retry = [pc |-> "idle"]
    /\ sendReq = [pc |-> "idle"]
    /\ users = {}
    /\ uploads = {}
    /\ reqs = <<>>

CallsIdle ==
    /\ files = InitialFiles
    /\ pc = [c \in CallIds |-> "idle"]
    /\ args = [c \in CallIds |-> NoArgs]
    /\ loc = [c \in CallIds |-> NoLocals]
    /\ err = [c \in CallIds |-> NoError]
    /\ hist = [c \in CallIds |-> NoHist]

(***************************************************************************)
(* Specifications                                                          *)
(***************************************************************************)
Next ==
    \E c \in {1} :
        \/ CallCreateFinalPoster(c, CallArgs)
        \/ CopyFile(c)
        \/ ResizeTemplate(c)
        \/ UnlinkTemp(c)
        \/ TemplateMetadata(c)
        \/ TextRender(c)
        \/ TextMetadata(c)
        \/ PhotoMask(c)
        \/ LogoResize(c)
        \/ Divider(c)
        \/ FooterBand(c)
        \/ FinalComposite(c)
        \/ WriteOutput(c)
        \/ StageFails(c)
        \/ Return(c)

\* Spec: createFinalPoster called again and again, one call at a time (the
\* loop of /api/send-posters awaits each call), in a process whose fonts
\* were or were not readable when image.js was loaded
Init ==
    \* image.js:21-34: a font that cannot be read leaves its variable at ''
    /\ fontBase64 \in {"", FontData}
    /\ italicFontBase64 \in {"", ItalicFontData}
    /\ CallsIdle
    /\ ServerIdle
    /\ TextIdle
    /\ FitIdle
    /\ SendIdle
    /\ GeomIdle
    /\ NoHistory

Spec == Init /\ [][Next]_vars

\* SpecConcurrent: two callers of createFinalPoster in the same process, whose
\* calls overlap at their awaits; every input file is a decodable image
NextConcurrent ==
    \E c \in CallIds :
        \/ CallCreateFinalPoster(c, { a \in CallArgs :
                                        /\ a.templatePath = TemplateA
                                        /\ a.person.photo = PhotoOk
                                        /\ a.person.name \in {<<"A", "n", "n">>, <<"G", "u", "s">>} })
        \/ CopyFile(c)
        \/ ResizeTemplate(c)
        \/ UnlinkTemp(c)
        \/ TemplateMetadata(c)
        \/ TextRender(c)
        \/ TextMetadata(c)
        \/ PhotoMask(c)
        \/ LogoResize(c)
        \/ Divider(c)
        \/ FooterBand(c)
        \/ FinalComposite(c)
        \/ WriteOutput(c)
        \/ StageFails(c)
        \/ Return(c)

InitConcurrent ==
    /\ fontBase64 = FontData
    /\ italicFontBase64 = ItalicFontData
    /\ CallsIdle
    /\ ServerIdle
    /\ TextIdle
    /\ FitIdle
    /\ SendIdle
    /\ GeomIdle
    /\ NoHistory

SpecConcurrent == InitConcurrent /\ [][NextConcurrent]_vars


\* generateFooterSVG called directly, with both fonts loaded and the
\* textWidth, footerHeight and fontSize createFinalPoster computes for the
\* 800-pixel template
InitText ==
    /\ fontBase64 = FontData
    /\ italicFontBase64 = ItalicFontData
    /\ CallsIdle
    /\ ServerIdle
    /\ FitIdle
    /\ svgArgs \in [ name : StringsUpTo({"&", "<", ">", "\"", "'", "a", ";"}, MaxStrLen),
                     designation : DesignationSamples \cup StringsUpTo({" ", "\t", "x"}, MaxStrLen),
                     phone : { <<>>, <<"9", "8", "7">>, <<"<", "1", ">">> },
                     textWidth : {428}, footerHeight : {162}, fontSize : {18},
                     isTeamName : BOOLEAN ]
    /\ svgOut = NoSvg
    /\ SendIdle
    /\ GeomIdle
    /\ NoHistory

SpecText == InitText /\ [][CallGenerateFooterSVG]_vars

NextFit == FitStart \/ FitShrink \/ FitExit

\* the font-fitting loop on enumerated sizes, widths and line lengths; the
\* third line is the tagline (41 code units) and the fourth "Phone: " and a
\* ten-digit number
InitFit ==
    /\ fontBase64 = FontData
    /\ italicFontBase64 = ItalicFontData
    /\ CallsIdle
    /\ ServerIdle
    /\ TextIdle
    /\ fitArgs \in [ fontSize : 1..MaxFontSize, textWidth : {0, 120, 300, 400, 428, 1000},
                     lens : {<<n, 27, Len(StrTagline), 17>> : n \in 0..MaxLineLen} ]
    /\ allFontSize = 0
    /\ fitPc = "start"
    /\ SendIdle
    /\ GeomIdle
    /\ NoHistory

SpecFit == InitFit /\ [][NextFit]_vars

\* the loop is synchronous code: JavaScript runs it to its end once started
SpecFitLive == SpecFit /\ WF_vars(NextFit)

(***************************************************************************)
(* /api/send-posters: one iteration of the loop over the recipients,       *)
(* server.js:227-343                                                       *)
(***************************************************************************)
StrTeamPrefix == <<"T", "e", "a", "m", ":", " ">>

\* server.js:285, designation.match(/Team: ([^,]+)/g): a match starts where
\* "Team: " is followed by a character other than a comma and runs up to the
\* next comma; the search goes on after the match, so of the places in one
\* comma-free stretch only the first starts a match
teamMatchCanStart(d, i) ==
    /\ i + Len(StrTeamPrefix) <= Len(d)
    /\ SubSeq(d, i, i + Len(StrTeamPrefix) - 1) = StrTeamPrefix
    /\ d[i + Len(StrTeamPrefix)] # ","

teamMatchStarts(d) ==
    { i \in 1..Len(d) :
        /\ teamMatchCanStart(d, i)
        /\ ~\E j \in 1..(i - 1) :
               /\ teamMatchCanStart(d, j)
               /\ \A k \in j..(i - 1) : d[k] # "," }

teamMatchAt(d, i) ==
    LET commas == {k \in i..Len(d) : d[k] = ","}
        last   == IF commas = {} THEN Len(d)
                  ELSE (CHOOSE k \in commas : \A m \in commas : k <= m) - 1
    IN  SubSeq(d, i, last)

\* server.js:282-289: the designation given to the engine
effectiveDesignation(d) ==
    IF d # <<>> /\ includes(d, <<"T", "e", "a", "m", ":">>) /\ teamMatchStarts(d) # {}
    THEN teamMatchAt(d, CHOOSE i \in teamMatchStarts(d) :
                            \A j \in teamMatchStarts(d) : i >= j)
    ELSE d

\* server.js:301-309 (an absent field is '', here <<>>)
personForPoster(person, photoPath) ==
    Person(person.name, photoPath, effectiveDesignation(person.designation),
           person.teamName, person.phone)

\* the recipients of the loop, each with the local path its photo was
\* resolved to (server.js:231-279)
Recipients ==
    [ made : {TRUE}, name : {<<"A", "n", "n">>}, phone : {StrPhone},
      designation : {
    <<"H", "e", "a", "l", "t", "h", " ", "i", "n", "s", "u", "r", "a", "n",
    "c", "e", " ", "a", "d", "v", "i", "s", "o", "r", ",", "T", "e", "a", "m",
    ":", " ", "N", "o", "r", "t", "h", ",", "T", "e", "a", "m", ":", " ", "S",
    "o", "u", "t", "h">>,
    <<"T", "e", "a", "m", ":", " ", "N", "o", "r", "t", "h">>,
    <<"W", "e", "a", "l", "t", "h", " ", "M", "a", "n", "a", "g", "e", "r">>,
    <<"P", "a", "r", "t", "n", "e", "r", ",", "T", "e", "a", "m", ":">>,
    <<"T", "e", "a", "m", ":", " ", ",", "P", "a", "r", "t", "n", "e", "r">>,
    <<"T", "e", "a", "m", ":", " ", "A", " ", "T", "e", "a", "m", ":", " ",
    "B">>,
    <<"T", "e", "a", "m", ":", " ", "W", "e", "a", "l", "t", "h", " ", "S",
    "q", "u", "a", "d", ",", "P", "a", "r", "t", "n", "e", "r">>,
    <<>> }, teamName : { <<>>, <<"N", "o", "r", "t", "h">>, <<"S", "o", "u", "t", "h">> },
      photoPath : {PhotoOk, PhotoGone} ]

\* server.js:258-279: the photo is not on disk; the loop continues with the
\* next recipient
SkipRecipient ==
    /\ recipient.made
    /\ pc[1] = "idle"
    /\ files[recipient.photoPath] = Absent
    /\ recipient' \in Recipients
    /\ UNCHANGED <<textVars, fitVars, callVars, geomVars, histVars, serverVars>>

\* server.js:281-315: the designation is reduced to its last team token and
\* createFinalPoster is called
SendPosterToRecipient ==
    /\ recipient.made
    /\ files[recipient.photoPath] # Absent
    /\ CallCreateFinalPoster(1,
          {[ templatePath |-> TemplateA,
             person       |-> personForPoster(recipient, recipient.photoPath),
             logoPath     |-> LogoFile,
             outputPath   |-> "output/final_1.jpeg" ]})

\* server.js:317-343: the call has settled; the poster is mailed, the catch
\* and the finally block unlink the final image, and the loop goes on
SendFinish ==
    /\ recipient.made
    /\ pc[1] \in {"done", "failed"}
    /\ files' = [files EXCEPT ![args[1].outputPath] = Absent]
    /\ pc' = [pc EXCEPT ![1] = "idle"]
    /\ args' = [args EXCEPT ![1] = NoArgs]
    /\ loc' = [loc EXCEPT ![1] = NoLocals]
    /\ err' = [err EXCEPT ![1] = NoError]
    /\ hist' = [hist EXCEPT ![1] = NoHist]
    /\ recipient' \in Recipients
    /\ UNCHANGED <<fontVars, textVars, fitVars, geomVars, histVars, serverVars>>

\* the steps of the call leave the loop's recipient alone
NextSend ==
    \/ SkipRecipient
    \/ SendPosterToRecipient
    \/ SendFinish
    \/ \E c \in {1} :
        \/ CopyFile(c)
        \/ ResizeTemplate(c)
        \/ UnlinkTemp(c)
        \/ TemplateMetadata(c)
        \/ TextRender(c)
        \/ TextMetadata(c)
        \/ PhotoMask(c)
        \/ LogoResize(c)
        \/ Divider(c)
        \/ FooterBand(c)
        \/ FinalComposite(c)
        \/ WriteOutput(c)
        \/ StageFails(c)

InitSend ==
    /\ fontBase64 = FontData
    /\ italicFontBase64 = ItalicFontData
    /\ CallsIdle
    /\ ServerIdle
    /\ TextIdle
    /\ FitIdle
    /\ GeomIdle
    /\ NoHistory
    /\ recipient \in Recipients

SpecSend == InitSend /\ [][NextSend]_vars

(***************************************************************************)
(* SpecGeom: the geometry of createFinalPoster on enumerated widths.       *)
(* createFinalPoster itself only ever plans for the width 800 its resize   *)
(* produces, and measures on the text layer the width it asked for.        *)
(***************************************************************************)
\* the widths textMetadata.width is drawn from: narrower than the reserved
\* textWidth, equal to it, wider, and far wider than the template

\* image.js:188-208 and 246-253
PlanGeometry ==
    /\ geom.made
    /\ ~geom.planned
    /\ geom' = [ made |-> TRUE, planned |-> TRUE, width |-> geom.width,
                 textMetadataWidth |-> geom.textMetadataWidth,
                 plan |-> geometryPlan(geom.width, geom.textMetadataWidth) ]
    /\ UNCHANGED <<textVars, fitVars, callVars, sendVars, histVars, serverVars>>


InitGeom ==
    /\ fontBase64 = FontData
    /\ italicFontBase64 = ItalicFontData
    /\ CallsIdle
    /\ ServerIdle
    /\ TextIdle
    /\ FitIdle
    /\ SendIdle
    /\ NoHistory
    /\ \E w \in 1..MaxWidth : \E m \in {1, geomTextWidth(w), geomTextWidth(w) + 50, 10 * w} :
          geom = [made |-> TRUE, planned |-> FALSE, width |-> w, textMetadataWidth |-> m]

SpecGeom == InitGeom /\ [][PlanGeometry]_vars

(***************************************************************************)
(* SpecRepeat: createFinalPoster called again and again in one process,    *)
(* one call at a time, with a record of what the calls wrote and of how    *)
(* the last one ended; a caller whose call failed calls again with the     *)
(* same arguments                                                          *)
(***************************************************************************)

NextRepeat ==
    \E c \in {1} :
        \/ CallCreateFinalPoster(c, IF lastCall.ended /\ lastCall.status = "failed"
                                     THEN {lastCall.args}
                                     ELSE { a \in CallArgs :
                                              /\ a.templatePath \in {TemplateA, TemplateB, TemplateBad}
                                              /\ a.person.name \in {<<"A", "n", "n">>, <<"C", "y">>, <<"H", "a", "l">>} })
        \/ CopyFile(c)
        \/ ResizeTemplate(c)
        \/ UnlinkTemp(c)
        \/ TemplateMetadata(c)
        \/ TextRender(c)
        \/ TextMetadata(c)
        \/ PhotoMask(c)
        \/ LogoResize(c)
        \/ Divider(c)
        \/ FooterBand(c)
        \/ FinalComposite(c)
        \/ WriteOutput(c)
        \/ StageFails(c)
        \/ Return(c)

InitRepeat ==
    /\ fontBase64 = FontData
    /\ italicFontBase64 \in {"", ItalicFontData}
    /\ CallsIdle
    /\ ServerIdle
    /\ TextIdle
    /\ FitIdle
    /\ SendIdle
    /\ GeomIdle
    /\ produced = [tracked |-> TRUE, posters |-> {}]
    /\ lastCall = [tracked |-> TRUE, ended |-> FALSE]

SpecRepeat == InitRepeat /\ [][NextRepeat]_vars

(***************************************************************************)
(* SpecRetry: retryOperation(operation, maxRetries, delay) of the storage  *)
(* helpers, called once; each attempt of the operation resolves or rejects *)
(***************************************************************************)
\* the condition of the if that guards the wait
retryWaits_AfterEveryFailure(attempt, maxRetries) == attempt <= maxRetries

retryWaits(attempt, maxRetries) == attempt < maxRetries

\* retryOperation, one disjunct per position of its body
retryOperation ==
    \* the head of the for loop: another attempt, or throw lastError
    \/ /\ retry.pc = "loop"
       /\ retry' = IF retry.attempt <= retry.maxRetries
                   THEN [retry EXCEPT !.pc = "operation"]
                   ELSE [retry EXCEPT !.pc = "thrown", !.thrown = retry.lastError]
       /\ UNCHANGED <<engineVars, sendReq, users, uploads, reqs>>
    \* await operation() resolves: its value is returned
    \/ /\ retry.pc = "operation"
       /\ retry' = [retry EXCEPT !.pc = "returned",
                                 !.calls = @ + 1,
                                 !.returned = <<"value of attempt", retry.attempt>>]
       /\ UNCHANGED <<engineVars, sendReq, users, uploads, reqs>>
    \* await operation() rejects: the error is kept, and a timer is set unless
    \* the attempt was the last
    \/ /\ retry.pc = "operation"
       /\ retry' = [retry EXCEPT
                       !.calls = @ + 1,
                       !.lastError = <<"error of attempt", retry.attempt>>,
                       !.pc = IF retryWaits(retry.attempt, retry.maxRetries) THEN "wait" ELSE "loop",
                       !.attempt = IF retryWaits(retry.attempt, retry.maxRetries) THEN @ ELSE @ + 1]
       /\ UNCHANGED <<engineVars, sendReq, users, uploads, reqs>>
    \* the timer of setTimeout(resolve, delay) fires; delay *= 2
    \/ /\ retry.pc = "wait"
       /\ retry' = [retry EXCEPT !.pc = "loop",
                                 !.waits = Append(@, retry.delay),
                                 !.delay = @ * 2,
                                 !.attempt = @ + 1]
       /\ UNCHANGED <<engineVars, sendReq, users, uploads, reqs>>

\* retryOperation is entered: lastError is undefined, attempt is 1
InitRetry ==
    /\ fontBase64 = FontData
    /\ italicFontBase64 = ItalicFontData
    /\ CallsIdle
    /\ TextIdle
    /\ FitIdle
    /\ SendIdle
    /\ GeomIdle
    /\ NoHistory
    /\ sendReq = [pc |-> "idle"]
    /\ users = {}
    /\ uploads = {}
    /\ reqs = <<>>
    /\ \E m \in 0..MaxRetries : \E d \in {0, 1, 250, 1000} :
          retry = [ pc |-> "loop", maxRetries |-> m, delayGiven |-> d,
                    attempt |-> 1, delay |-> d, lastError |-> <<"undefined">>,
                    calls |-> 0, waits |-> <<>>,
                    returned |-> <<>>, thrown |-> <<>> ]

SpecRetry == InitRetry /\ [][retryOperation]_vars

(***************************************************************************)
(* SpecServer: the handlers of server.js that change the User collection   *)
(* or uploads/, two requests at a time.  A handler runs from one await to  *)
(* the next without interruption; between two awaits the other request     *)
(* can run.                                                                *)
(***************************************************************************)
ReqIds   == {1, 2}
Emails   == {"a@x", "b@x"}
UserIds  == {"u1", "u2"}

\* the file multer stores for the request and the processed photo of
\* server.js:135 / 476
rawUpload(r)      == <<"uploads/multer", r>>
finalPhotoPath(r) == <<"uploads/processed", r>>

\* a request arrives at a handler that is not busy
Arrive(r, handler, in, position, status) ==
    /\ reqs[r].pc = "idle"
    /\ reqs' = [reqs EXCEPT ![r] = [handler |-> handler, pc |-> position, status |-> status,
                                    in |-> in, todo |-> {}, uploaded |-> FALSE]]

At(r, handler, position) == reqs[r].handler = handler /\ reqs[r].pc = position
Goto(r, position)   == reqs' = [reqs EXCEPT ![r].pc = position]
Respond(r, status)  == reqs' = [reqs EXCEPT ![r].pc = "done", ![r].status = status]

\* part_009:27-29: id and email have unique indexes; an insert or an update
\* that would break one is rejected with E11000 duplicate key
duplicateKey_IdOnly(coll, doc) ==
    \E v \in coll : v.id = doc.id

duplicateKey(coll, doc) ==
    \E v \in coll : v.id = doc.id \/ v.email = doc.email

\* server.js:373-378
isAdmin(isAdminQuery, cookie) == isAdminQuery \/ cookie = "signedByLogin"

\* server.js:118-187, POST /api/register
Register(r) ==
    \* multer stores the photo, then server.js:120-130 up to await findOne
    \/ \E in \in [complete : BOOLEAN, hasFile : BOOLEAN, email : Emails] :
         /\ Arrive(r, "register", in,
                   IF in.complete /\ in.hasFile THEN "findOne" ELSE "done",
                   IF in.complete /\ in.hasFile THEN 0 ELSE 400)
         /\ uploads' = IF in.hasFile THEN uploads \cup {rawUpload(r)} ELSE uploads
         /\ UNCHANGED <<engineVars, retry, sendReq, users>>
    \* server.js:130-140
    \/ /\ At(r, "register", "findOne")
       /\ IF \E u \in users : u.email = reqs[r].in.email
          THEN Respond(r, 400)
          ELSE Goto(r, "processCircularImage")
       /\ UNCHANGED <<engineVars, retry, sendReq, users, uploads>>
    \* server.js:140-142: the processed photo is written
    \/ /\ At(r, "register", "processCircularImage")
       /\ uploads' = uploads \cup {finalPhotoPath(r)}
       /\ Goto(r, "unlinkRaw")
       /\ UNCHANGED <<engineVars, retry, sendReq, users>>
    \* server.js:143-151: processing fails, the upload is renamed
    \/ /\ At(r, "register", "processCircularImage")
       /\ uploads' = (uploads \ {rawUpload(r)}) \cup {finalPhotoPath(r)}
       /\ Goto(r, "uploadToGCS")
       /\ UNCHANGED <<engineVars, retry, sendReq, users>>
    \* server.js:142
    \/ /\ At(r, "register", "unlinkRaw")
       /\ uploads' = uploads \ {rawUpload(r)}
       /\ Goto(r, "uploadToGCS")
       /\ UNCHANGED <<engineVars, retry, sendReq, users>>
    \* server.js:158-166: the upload resolves or rejects
    \/ /\ At(r, "register", "uploadToGCS")
       /\ \E ok \in BOOLEAN :
            reqs' = [reqs EXCEPT ![r].pc = "unlinkFinal", ![r].uploaded = ok]
       /\ UNCHANGED <<engineVars, retry, sendReq, users, uploads>>
    \* server.js:160 / 164-165, then 168-176 up to await createUser; the id
    \* is Date.now()
    \/ /\ At(r, "register", "unlinkFinal")
       /\ uploads' = uploads \ {finalPhotoPath(r)}
       /\ IF reqs[r].uploaded
          THEN \E id \in UserIds :
                 reqs' = [reqs EXCEPT ![r].pc = "createUser", ![r].in =
                            [complete |-> TRUE, hasFile |-> TRUE,
                             email |-> reqs[r].in.email, id |-> id]]
          ELSE Respond(r, 500)
       /\ UNCHANGED <<engineVars, retry, sendReq, users>>
    \* server.js:176-182
    \/ /\ At(r, "register", "createUser")
       /\ LET doc == [id |-> reqs[r].in.id, email |-> reqs[r].in.email,
                      photo |-> "", photoUrl |-> "https://storage.googleapis.com/photo"]
          IN  IF duplicateKey(users, doc)
              THEN Respond(r, 400) /\ UNCHANGED users
              ELSE Respond(r, 200) /\ users' = users \cup {doc}
       /\ UNCHANGED <<engineVars, retry, sendReq, uploads>>
    \* server.js:183-186: the insert fails for another reason
    \/ /\ At(r, "register", "createUser")
       /\ Respond(r, 500)
       /\ UNCHANGED <<engineVars, retry, sendReq, users, uploads>>

\* server.js:428-442, POST /api/admin/users
AdminCreateUser(r) ==
    \/ \E in \in [complete : BOOLEAN, id : UserIds, email : Emails] :
         /\ Arrive(r, "adminCreateUser", in,
                   IF in.complete THEN "findOne" ELSE "done",
                   IF in.complete THEN 0 ELSE 400)
         /\ UNCHANGED <<engineVars, retry, sendReq, users, uploads>>
    \/ /\ At(r, "adminCreateUser", "findOne")
       /\ IF \E u \in users : u.email = reqs[r].in.email
          THEN Respond(r, 400)
          ELSE Goto(r, "createUser")
       /\ UNCHANGED <<engineVars, retry, sendReq, users, uploads>>
    \/ /\ At(r, "adminCreateUser", "createUser")
       /\ LET doc == [id |-> reqs[r].in.id, email |-> reqs[r].in.email,
                      photo |-> "", photoUrl |-> ""]
          IN  IF duplicateKey(users, doc)
              THEN Respond(r, 500) /\ UNCHANGED users
              ELSE Respond(r, 200) /\ users' = users \cup {doc}
       /\ UNCHANGED <<engineVars, retry, sendReq, uploads>>

\* server.js:409-426, PUT /api/users/:id
PutUser(r) ==
    \/ \E in \in [complete : BOOLEAN, id : UserIds, email : Emails] :
         /\ Arrive(r, "putUser", in,
                   IF in.complete THEN "findOne" ELSE "done",
                   IF in.complete THEN 0 ELSE 400)
         /\ UNCHANGED <<engineVars, retry, sendReq, users, uploads>>
    \/ /\ At(r, "putUser", "findOne")
       /\ IF \E u \in users : u.email = reqs[r].in.email /\ u.id # reqs[r].in.id
          THEN Respond(r, 400)
          ELSE Goto(r, "updateUser")
       /\ UNCHANGED <<engineVars, retry, sendReq, users, uploads>>
    \* findOneAndUpdate({ id }, { name, email, phone, designation })
    \/ /\ At(r, "putUser", "updateUser")
       /\ LET mine   == {u \in users : u.id = reqs[r].in.id}
              others == users \ mine
          IN  IF mine = {}
              THEN Respond(r, 404) /\ UNCHANGED users
              ELSE IF duplicateKey(others, [id |-> "", email |-> reqs[r].in.email])
              THEN Respond(r, 500) /\ UNCHANGED users
              ELSE /\ Respond(r, 200)
                   /\ users' = others \cup {[u EXCEPT !.email = reqs[r].in.email] : u \in mine}
       /\ UNCHANGED <<engineVars, retry, sendReq, uploads>>

\* server.js:444-465, POST /api/admin/migrate-photo behind isAdmin
MigratePhoto(r) ==
    \* the cookie a request carries: none, one whose signature does not verify
    \* (req.signedCookies holds false for it), one set by /api/admin-login
    \/ \E in \in [isAdminQuery : BOOLEAN, cookie : {"none", "badSignature", "signedByLogin"}] :
         /\ Arrive(r, "migratePhoto", in,
                   IF isAdmin(in.isAdminQuery, in.cookie) THEN "find" ELSE "done",
                   IF isAdmin(in.isAdminQuery, in.cookie) THEN 0 ELSE 403)
         /\ UNCHANGED <<engineVars, retry, sendReq, users, uploads>>
    \* server.js:446-451: the documents without photoUrl and with photo
    \/ /\ At(r, "migratePhoto", "find")
       /\ reqs' = [reqs EXCEPT ![r].pc = "updateUser",
                               ![r].todo = {u \in users : u.photoUrl = "" /\ u.photo # ""}]
       /\ UNCHANGED <<engineVars, retry, sendReq, users, uploads>>
    \* server.js:454-459: updateUser(u.id, { ...u, photoUrl }) for the next
    \* document of the list; an error is logged and the loop goes on
    \/ /\ At(r, "migratePhoto", "updateUser")
       /\ \E u \in reqs[r].todo :
            LET mine   == {v \in users : v.id = u.id}
                others == users \ mine
            IN  /\ users' = IF mine = {} \/ duplicateKey(others, [id |-> "", email |-> u.email])
                            THEN users
                            ELSE others \cup {[u EXCEPT !.photoUrl = "/" \o u.photo]}
                /\ reqs' = [reqs EXCEPT ![r].todo = @ \ {u}]
       /\ UNCHANGED <<engineVars, retry, sendReq, uploads>>
    \* server.js:461
    \/ /\ At(r, "migratePhoto", "updateUser")
       /\ reqs[r].todo = {}
       /\ Respond(r, 200)
       /\ UNCHANGED <<engineVars, retry, sendReq, users, uploads>>

\* server.js:467-510, PUT /api/users/:id/photo: multer, then isAdmin, then
\* the handler
PutUserPhoto(r) ==
    \/ \E in \in [isAdminQuery : BOOLEAN, cookie : {"none", "badSignature", "signedByLogin"},
                   hasFile : BOOLEAN, id : UserIds] :
         /\ Arrive(r, "putUserPhoto", in,
                   IF isAdmin(in.isAdminQuery, in.cookie) /\ in.hasFile THEN "getUser" ELSE "done",
                   IF ~isAdmin(in.isAdminQuery, in.cookie) THEN 403
                   ELSE IF ~in.hasFile THEN 400 ELSE 0)
         /\ uploads' = IF in.hasFile THEN uploads \cup {rawUpload(r)} ELSE uploads
         /\ UNCHANGED <<engineVars, retry, sendReq, users>>
    \* server.js:472-476
    \/ /\ At(r, "putUserPhoto", "getUser")
       /\ IF \E u \in users : u.id = reqs[r].in.id
          THEN Goto(r, "processCircularImage")
          ELSE Respond(r, 404)
       /\ UNCHANGED <<engineVars, retry, sendReq, users, uploads>>
    \* server.js:478-480
    \/ /\ At(r, "putUserPhoto", "processCircularImage")
       /\ uploads' = uploads \cup {finalPhotoPath(r)}
       /\ Goto(r, "unlinkRaw")
       /\ UNCHANGED <<engineVars, retry, sendReq, users>>
    \* server.js:481-483: processing fails, the upload is renamed
    \/ /\ At(r, "putUserPhoto", "processCircularImage")
       /\ Goto(r, "rename")
       /\ UNCHANGED <<engineVars, retry, sendReq, users, uploads>>
    \/ /\ At(r, "putUserPhoto", "rename")
       /\ uploads' = (uploads \ {rawUpload(r)}) \cup {finalPhotoPath(r)}
       /\ Goto(r, "uploadToGCS")
       /\ UNCHANGED <<engineVars, retry, sendReq, users>>
    \* server.js:480
    \/ /\ At(r, "putUserPhoto", "unlinkRaw")
       /\ uploads' = uploads \ {rawUpload(r)}
       /\ Goto(r, "uploadToGCS")
       /\ UNCHANGED <<engineVars, retry, sendReq, users>>
    \* server.js:489-496
    \/ /\ At(r, "putUserPhoto", "uploadToGCS")
       /\ \E ok \in BOOLEAN :
            reqs' = [reqs EXCEPT ![r].pc = IF ok THEN "updateUser" ELSE "unlinkFinal",
                                 ![r].uploaded = ok]
       /\ UNCHANGED <<engineVars, retry, sendReq, users, uploads>>
    \* server.js:499: updateUser(id, { photoUrl, photo: '' })
    \/ /\ At(r, "putUserPhoto", "updateUser")
       /\ users' = {IF u.id = reqs[r].in.id
                    THEN [u EXCEPT !.photoUrl = "https://storage.googleapis.com/photo",
                                   !.photo = ""]
                    ELSE u : u \in users}
       /\ Goto(r, "unlinkFinal")
       /\ UNCHANGED <<engineVars, retry, sendReq, uploads>>
    \* server.js:494-495 / 502-504
    \/ /\ At(r, "putUserPhoto", "unlinkFinal")
       /\ uploads' = uploads \ {finalPhotoPath(r)}
       /\ Respond(r, IF reqs[r].uploaded THEN 200 ELSE 500)
       /\ UNCHANGED <<engineVars, retry, sendReq, users>>

NextServer ==
    \E r \in ReqIds :
        \/ Register(r)
        \/ AdminCreateUser(r)
        \/ PutUser(r)
        \/ MigratePhoto(r)
        \/ PutUserPhoto(r)

InitServer ==
    /\ fontBase64 = FontData
    /\ italicFontBase64 = ItalicFontData
    /\ CallsIdle
    /\ TextIdle
    /\ FitIdle
    /\ SendIdle
    /\ GeomIdle
    /\ NoHistory
    /\ retry = [pc |-> "idle"]
    /\ sendReq = [pc |-> "idle"]
    \* no record, or one created before photos were moved to cloud storage
    /\ users \in {{}, {[id |-> "u1", email |-> "a@x", photo |-> "p.jpg", photoUrl |-> ""]}}
    /\ uploads = {}
    /\ reqs = [r \in ReqIds |-> [handler |-> "none", pc |-> "idle", status |-> 0, in |-> <<>>,
                              todo |-> {}, uploaded |-> FALSE]]

SpecServer == InitServer /\ [][NextServer]_vars

(***************************************************************************)
(* SpecRequest: one /api/send-posters request, from the handler's first    *)
(* line to its answer.  multer has stored the uploaded template; the       *)
(* posters are made by createFinalPoster, call 1.                          *)
(***************************************************************************)
\* where the photo of a recipient is: in cloud storage (it is downloaded to
\* a temporary file), or at a local path


\* server.js:325: successfulRecipients++ is reached when sendEmail resolved
successfulAfter_CountsPosters(count, outcome) ==
    IF outcome \in {"sent", "emailFailed"} THEN count + 1 ELSE count

successfulAfter(count, outcome) ==
    IF outcome = "sent" THEN count + 1 ELSE count

\* the recipient of the loop has been dealt with: the catch and the finally
\* block of server.js:327-343 are next
RecipientOutcome(outcome) ==
    sendReq' = [sendReq EXCEPT !.pc = "cleanup",
                               !.outcomes = Append(@, outcome),
                               !.successful = successfulAfter(@, outcome)]

\* server.js:189-356
SendPosters ==
    \* server.js:191-196: designation.toLowerCase() throws when the field is
    \* missing, and the catch of server.js:352 answers 500
    \/ /\ sendReq.pc = "start"
       /\ sendReq' = IF sendReq.designationGiven
                     THEN [sendReq EXCEPT !.pc = "query"]
                     ELSE [sendReq EXCEPT !.pc = "done", !.status = 500]
       /\ UNCHANGED <<textVars, fitVars, callVars, sendVars, geomVars, histVars,
                      retry, users, uploads, reqs>>
    \* server.js:197-225: the query resolves
    \/ /\ sendReq.pc = "query"
       /\ \E found \in (
              LET RecipientKinds == { [source |-> "gcs",   photoPath |-> TempPhoto],
              [source |-> "local", photoPath |-> PhotoOk],
              [source |-> "local", photoPath |-> PhotoBad],
              [source |-> "local", photoPath |-> PhotoGone] }
              IN  UNION {[1..n -> RecipientKinds] : n \in 0..MaxRecipients}) :
            IF found = <<>>
            THEN /\ files' = [files EXCEPT ![sendReq.template] = Absent]
                 /\ sendReq' = [sendReq EXCEPT !.pc = "done", !.status = 404]
            ELSE /\ sendReq' = [sendReq EXCEPT !.pc = "resolvePhoto", !.recipients = found]
                 /\ UNCHANGED files
       /\ UNCHANGED <<fontVars, pc, args, loc, err, hist, textVars, fitVars, sendVars,
                      geomVars, histVars, retry, users, uploads, reqs>>
    \* the query rejects
    \/ /\ sendReq.pc = "query"
       /\ sendReq' = [sendReq EXCEPT !.pc = "done", !.status = 500]
       /\ UNCHANGED <<textVars, fitVars, callVars, sendVars, geomVars, histVars,
                      retry, users, uploads, reqs>>
    \* server.js:227-279 for a photo in cloud storage: the download resolves
    \/ /\ sendReq.pc = "resolvePhoto"
       /\ sendReq.recipients[sendReq.i].source = "gcs"
       /\ files' = [files EXCEPT ![TempPhoto] = Image("photo", 300, 400)]
       /\ sendReq' = [sendReq EXCEPT !.pc = "createFinalPoster", !.isTempFile = TRUE]
       /\ UNCHANGED <<fontVars, pc, args, loc, err, hist, textVars, fitVars, sendVars,
                      geomVars, histVars, retry, users, uploads, reqs>>
    \* the download rejects: continue
    \/ /\ sendReq.pc = "resolvePhoto"
       /\ sendReq.recipients[sendReq.i].source = "gcs"
       /\ RecipientOutcome("skipped")
       /\ UNCHANGED <<textVars, fitVars, callVars, sendVars, geomVars, histVars,
                      retry, users, uploads, reqs>>
    \* server.js:266-279 for a local path
    \/ /\ sendReq.pc = "resolvePhoto"
       /\ sendReq.recipients[sendReq.i].source = "local"
       /\ IF files[sendReq.recipients[sendReq.i].photoPath] = Absent
          THEN RecipientOutcome("skipped")
          ELSE sendReq' = [sendReq EXCEPT !.pc = "createFinalPoster"]
       /\ UNCHANGED <<textVars, fitVars, callVars, sendVars, geomVars, histVars,
                      retry, users, uploads, reqs>>
    \* server.js:281-316: createFinalPoster is called
    \/ /\ sendReq.pc = "createFinalPoster"
       /\ CallCreateFinalPoster(1,
             {[ templatePath |-> sendReq.template,
                person       |-> personForPoster(
                                    [name |-> <<"A", "n", "n">>, phone |-> StrPhone,
                                     designation |-> <<"T", "e", "a", "m", ":", " ", "N">>,
                                     teamName |-> <<>>],
                                    sendReq.recipients[sendReq.i].photoPath),
                logoPath     |-> LogoFile,
                outputPath   |-> "output/final_1.jpeg" ]})
    \* the call has rejected: the catch of server.js:327
    \/ /\ sendReq.pc = "createFinalPoster"
       /\ pc[1] = "failed"
       /\ pc' = [pc EXCEPT ![1] = "idle"]
       /\ args' = [args EXCEPT ![1] = NoArgs]
       /\ loc' = [loc EXCEPT ![1] = NoLocals]
       /\ err' = [err EXCEPT ![1] = NoError]
       /\ hist' = [hist EXCEPT ![1] = NoHist]
       /\ RecipientOutcome("posterFailed")
       /\ UNCHANGED <<fontVars, files, textVars, fitVars, sendVars, geomVars, histVars,
                      retry, users, uploads, reqs>>
    \* the call has resolved: sendEmail is called, server.js:318
    \/ /\ sendReq.pc = "createFinalPoster"
       /\ pc[1] = "done"
       /\ pc' = [pc EXCEPT ![1] = "idle"]
       /\ args' = [args EXCEPT ![1] = NoArgs]
       /\ loc' = [loc EXCEPT ![1] = NoLocals]
       /\ err' = [err EXCEPT ![1] = NoError]
       /\ hist' = [hist EXCEPT ![1] = NoHist]
       /\ sendReq' = [sendReq EXCEPT !.pc = "sendEmail"]
       /\ UNCHANGED <<fontVars, files, textVars, fitVars, sendVars, geomVars, histVars,
                      retry, users, uploads, reqs>>
    \* server.js:318-325: sendEmail resolves or rejects
    \/ /\ sendReq.pc = "sendEmail"
       /\ \E outcome \in {"sent", "emailFailed"} : RecipientOutcome(outcome)
       /\ UNCHANGED <<textVars, fitVars, callVars, sendVars, geomVars, histVars,
                      retry, users, uploads, reqs>>
    \* server.js:327-343: the final image and the temporary photo are
    \* unlinked; then the next recipient, or server.js:345-351
    \/ /\ sendReq.pc = "cleanup"
       /\ LET cleaned == [files EXCEPT !["output/final_1.jpeg"] = Absent,
                                       ![TempPhoto] = IF sendReq.isTempFile THEN Absent ELSE @]
          IN  IF sendReq.i < Len(sendReq.recipients)
              THEN /\ files' = cleaned
                   /\ sendReq' = [sendReq EXCEPT !.pc = "resolvePhoto", !.i = @ + 1,
                                                 !.isTempFile = FALSE]
              ELSE /\ files' = [cleaned EXCEPT ![sendReq.template] = Absent]
                   /\ sendReq' = [sendReq EXCEPT !.pc = "done", !.status = 200,
                                                 !.isTempFile = FALSE,
                                                 !.recipientCount = sendReq.successful]
       /\ UNCHANGED <<fontVars, pc, args, loc, err, hist, textVars, fitVars, sendVars,
                      geomVars, histVars, retry, users, uploads, reqs>>

NextRequest ==
    \/ SendPosters
    \/ \E c \in {1} :
        \/ CopyFile(c)
        \/ ResizeTemplate(c)
        \/ UnlinkTemp(c)
        \/ TemplateMetadata(c)
        \/ TextRender(c)
        \/ TextMetadata(c)
        \/ PhotoMask(c)
        \/ LogoResize(c)
        \/ Divider(c)
        \/ FooterBand(c)
        \/ FinalComposite(c)
        \/ WriteOutput(c)
        \/ StageFails(c)

InitRequest ==
    /\ fontBase64 = FontData
    /\ italicFontBase64 = ItalicFontData
    /\ CallsIdle
    /\ TextIdle
    /\ FitIdle
    /\ SendIdle
    /\ GeomIdle
    /\ NoHistory
    /\ retry = [pc |-> "idle"]
    /\ users = {}
    /\ uploads = {}
    /\ reqs = <<>>
    /\ \E t \in {TemplateA, TemplateBad} : \E g \in BOOLEAN :
          sendReq = [ pc |-> "start", template |-> t, designationGiven |-> g,
                      recipients |-> <<>>, i |-> 1, isTempFile |-> FALSE,
                      successful |-> 0, outcomes |-> <<>>,
                      status |-> 0, recipientCount |-> 0 ]

SpecRequest == InitRequest /\ [][NextRequest]_vars

(***************************************************************************)
(* Properties                                                              *)
(***************************************************************************)
Range(f) == {f[i] : i \in DOMAIN f}

StagesBeforeWrite ==
    << "validateParameters", "validatePerson", "validateTemplate", "copyFile",
       "resizeTemplate", "unlinkTemp", "templateMetadata", "textRender",
       "textMetadata", "photoMask", "logoResize", "divider", "footerBand",
       "finalComposite" >>

\* C1: a call changes the file at its outputPath at most once, and only when
\* every earlier stage has completed, in order; a call that has failed has an
\* error, has not touched outputPath, and the file there is what it was when
\* the call began.
C1_WriteOnceAfterAllStages ==
    \A c \in CallIds :
        /\ hist[c].outWrites <= 1
        /\ hist[c].outWrites = 1 =>
               hist[c].stages = Append(StagesBeforeWrite, "write")
        /\ pc[c] = "failed" =>
               /\ err[c] # NoError
               /\ hist[c].outWrites = 0
               /\ files[args[c].outputPath] = hist[c].outBefore

\* a call fails at the footer band or later while a poster of an earlier call
\* is at its outputPath
C1_Witness ==
    /\ pc[1] = "failed"
    /\ Len(hist[1].stages) >= 12
    /\ hist[1].outBefore # Absent

\* what createFinalPoster does with arguments a when no other call runs and
\* no operation fails for an outside reason
AloneOutcome(a) ==
    LET failed(e) == [status |-> "failed", err |-> e, written |-> NoImage]
        l1 == [NoLocals EXCEPT
                  !.templateResized = resizeToWidth(InitialFiles[a.templatePath], 800)]
        l2 == [l1 EXCEPT
                  !.width = l1.templateResized.w,
                  !.height = l1.templateResized.h,
                  !.footerSVG = footerSVGFor(a.person, l1.templateResized.w),
                  !.circularPhoto = Image(InitialFiles[a.person.photo].id,
                                          photoSize(l1.templateResized.w),
                                          photoSize(l1.templateResized.w)),
                  !.resizedLogo = Image(InitialFiles[a.logoPath].id,
                                        logoSize(l1.templateResized.w),
                                        logoSize(l1.templateResized.w))]
        l3 == [l2 EXCEPT
                  !.textBuffer = Image("text", l2.footerSVG.width, l2.footerSVG.height),
                  !.textMetadata = [width |-> l2.footerSVG.width,
                                    height |-> l2.footerSVG.height],
                  !.lineX = lineX(l2.width, l2.footerSVG.width),
                  !.logoX = logoXCentered(l2.width, l2.footerSVG.width),
                  !.lineBuffer = Image("line", lineWidth, logoSize(l2.width))]
        l4 == [l3 EXCEPT !.gradientFooterBuffer = footerBand(l3)]
    IN  IF parametersError(a) # NoError THEN failed(parametersError(a))
        ELSE IF personError(a.person) # NoError THEN failed(personError(a.person))
        ELSE IF InitialFiles[a.templatePath] = Absent
             THEN failed(MsgTemplateNotFound(a.templatePath))
        ELSE IF readError(InitialFiles, a.templatePath) # NoError
             THEN failed(readError(InitialFiles, a.templatePath))
        ELSE IF readError(InitialFiles, a.person.photo) # NoError
             THEN failed(readError(InitialFiles, a.person.photo))
        ELSE IF readError(InitialFiles, a.logoPath) # NoError
             THEN failed(readError(InitialFiles, a.logoPath))
        ELSE [status |-> "done", err |-> NoError, written |-> finalImage(l4)]

Outcome(c) ==
    [ status  |-> pc[c],
      err     |-> err[c],
      written |-> IF pc[c] = "done" THEN loc[c].finalImageBuffer ELSE NoImage ]

\* C2: a call that has ended, and in which no operation failed for an outside
\* reason, has ended the way it ends when it runs alone: the same success or
\* error and the same content written.
C2_SameOutcomeAsAlone ==
    \A c \in CallIds :
        (pc[c] \in {"done", "failed"} /\ ~hist[c].envFault) =>
            Outcome(c) = AloneOutcome(args[c])

\* the person passes the validation the specification describes
PersonIsComplete(person) ==
    /\ person.name # <<>>
    /\ person.photo # ""
    /\ person.designation # <<>> \/ person.teamName # <<>>

\* C3: a call given all its parameters gets past the validation of the person
\* exactly when the person has a name, a photo and a designation or a team name.
C3_ValidationAcceptsTeamName ==
    \A c \in CallIds :
        (pc[c] # "idle" /\ parametersError(args[c]) = NoError) =>
            ("validatePerson" \in Range(hist[c].stages) <=> PersonIsComplete(args[c].person))

\* C4: the error of a call rejected for its person names the missing field.
C4_ErrorNamesMissingField ==
    \A c \in CallIds :
        (pc[c] = "failed" /\ hist[c].stages = <<"validateParameters">>) =>
            /\ args[c].person.photo = "" => "photo" \in Range(err[c])
            /\ args[c].person.name = <<>> => "name" \in Range(err[c])
            /\ (args[c].person.designation = <<>> /\ args[c].person.name # <<>>
                    /\ args[c].person.photo # "") =>
                   Range(err[c]) \cap {"designation", "teamName"} # {}

FontError == <<"Font", "resource", "not", "loaded">>

\* C5: when a font could not be read at load time, no call gets past its
\* start, a call that was made has failed with a font error, and no footer
\* markup is produced.
C5_MissingFontRefusesCalls ==
    (fontBase64 = "" \/ italicFontBase64 = "") =>
        /\ \A c \in CallIds :
              /\ pc[c] \in {"idle", "failed"}
              /\ pc[c] = "failed" => err[c] = FontError
              /\ ~loc[c].footerSVG.made
        /\ ~svgOut.made

\* C6: the first candidate size is max(fontSize, 18); every later candidate is
\* max(12, floor(previous * 0.92)) and not greater than the previous one; no
\* candidate is below 12.
C6_ShrinkSequence ==
    /\ [](fitPc # "start" => allFontSize >= 12)
    /\ [][ /\ fitPc = "start" =>
                allFontSize' = (IF fitArgs.fontSize > 18 THEN fitArgs.fontSize ELSE 18)
           /\ fitPc # "start" =>
                /\ allFontSize' <= allFontSize
                /\ allFontSize' # allFontSize =>
                     allFontSize' = (IF (allFontSize * 92) \div 100 > 12
                                     THEN (allFontSize * 92) \div 100 ELSE 12) ]_vars

\* a request for size 19 has been shrunk through 17, 15, 13 to the floor
C6_Witness ==
    /\ fitPc = "done"
    /\ fitArgs.fontSize = 19
    /\ allFontSize = 12

\* the widest the four lines may be
FitWidth == IF fitArgs.textWidth - 4 > 10 THEN fitArgs.textWidth - 4 ELSE 10

\* every line is at most FitWidth wide at size s, in exact arithmetic
AllLinesWithin(s) ==
    \A i \in 1..4 : fitArgs.lens[i] * s * 55 <= FitWidth * 100

\* the first size, from s down the shrink sequence, that passes the test of
\* the loop or is the floor
RECURSIVE FirstFitting(_)
FirstFitting(s) ==
    IF s <= 12 \/ fitsAtSize(s, fitArgs.lens, FitWidth) THEN s
    ELSE FirstFitting(IF (s * 92) \div 100 > 12 THEN (s * 92) \div 100 ELSE 12)

Unescape(s) ==
    LET entityAt(j, e) == j + Len(e) - 1 <= Len(s) /\ SubSeq(s, j, j + Len(e) - 1) = e
        charAt(j) ==
            IF s[j] # "&" THEN s[j]
            ELSE IF entityAt(j, EntAmp) THEN "&"
            ELSE IF entityAt(j, EntLt) THEN "<"
            ELSE IF entityAt(j, EntGt) THEN ">"
            ELSE IF entityAt(j, EntQuot) THEN "\""
            ELSE IF entityAt(j, EntApos) THEN "'"
            ELSE s[j]
        inside(k) ==
            \E j \in Max(1, k - 5)..(k - 1) :
                /\ s[j] = "&"
                /\ \E e \in {EntAmp, EntLt, EntGt, EntQuot, EntApos} :
                       k <= j + Len(e) - 1 /\ entityAt(j, e)
        kept == SelectSeq([k \in 1..Len(s) |-> k], LAMBDA k : ~inside(k))
    IN  [k \in 1..Len(kept) |-> charAt(kept[k])]

UnsafeChars == {"&", "<", ">", "\"", "'"}
Entities == {EntAmp, EntLt, EntGt, EntQuot, EntApos}
CountIn(s, chars) == Cardinality({i \in 1..Len(s) : s[i] \in chars})

\* the lines of the call before they are escaped
SvgRawLines ==
    rawLines(svgArgs.name, svgArgs.designation, svgArgs.phone, svgArgs.isTeamName)

\* C8: each of the four emitted lines has no raw < > " or '; every & in it
\* starts an entity; it has one entity for each unsafe character of the
\* unescaped line; and unescaping it gives the unescaped line.
C8_LinesEscapedOnce ==
    svgOut.made =>
        /\ Len(svgOut.text) = 4
        /\ \A i \in 1..4 :
              LET line == svgOut.text[i] IN
              /\ \A k \in 1..Len(line) : line[k] \notin {"<", ">", "\"", "'"}
              /\ \A k \in 1..Len(line) :
                    line[k] = "&" =>
                        \E e \in Entities :
                            /\ k + Len(e) - 1 <= Len(line)
                            /\ SubSeq(line, k, k + Len(e) - 1) = e
              /\ CountIn(line, {"&"}) = CountIn(SvgRawLines[i], UnsafeChars)
              /\ Unescape(line) = SvgRawLines[i]

\* a name and a phone number made of unsafe characters have been escaped
C8_Witness ==
    /\ svgOut.made
    /\ svgArgs.name = <<"&", "<">>
    /\ svgArgs.phone = <<"<", "1", ">">>
    /\ svgArgs.designation = <<"i", "t", "'", "s", " ", "\"", "m", "e", "\"">>

\* s has word, whatever the case of the letters of s
ContainsAnyCase(s, word) ==
    \E i \in 1..(Len(s) - Len(word) + 1) :
        \A k \in 1..Len(word) :
            \/ s[i + k - 1] = word[k]
            \/ /\ s[i + k - 1] \in UpperCaseLetters
               /\ LowerCaseOf[s[i + k - 1]] = word[k]

\* the words of s (maximal runs without white space), joined by one space
RECURSIVE WordsJoined(_, _)
WordsJoined(s, started) ==
    IF s = <<>> THEN <<>>
    ELSE IF IsWhiteSpace(Head(s)) THEN WordsJoined(Tail(s), started)
    ELSE LET n == CHOOSE n \in 1..Len(s) :
                     /\ \A k \in 1..n : ~IsWhiteSpace(s[k])
                     /\ n = Len(s) \/ IsWhiteSpace(s[n + 1])
         IN  (IF started THEN <<" ">> ELSE <<>>) \o SubSeq(s, 1, n)
                 \o WordsJoined(SubSeq(s, n + 1, Len(s)), TRUE)

\* the second line the specification gives for a designation
SecondLineFor(d) ==
    IF d = <<>> THEN StrNA
    ELSE IF ContainsAnyCase(d, StrWealth) THEN StrWealthManager
    ELSE IF ContainsAnyCase(d, StrHealth) THEN StrHealthAdvisor
    ELSE WordsJoined(d, FALSE) \o StrBrandSuffix

\* C9: with the team flag off, the second line is, escaped for the markup,
\* "N/A | WealthPlus" for an empty designation, "Wealth Manager | WealthPlus"
\* for one with "wealth" in any case, else "Health Insurance Advisor |
\* WealthPlus" for one with "health", else the designation with white space
\* collapsed and trimmed, followed by " | WealthPlus".
C9_SecondLineFromDesignation ==
    (svgOut.made /\ ~svgArgs.isTeamName) =>
        svgOut.text[2] = escapeXml(SecondLineFor(svgArgs.designation))

\* a designation with both words has been formatted
C9_Witness ==
    /\ svgOut.made
    /\ ~svgArgs.isTeamName
    /\ ContainsAnyCase(svgArgs.designation, StrWealth)
    /\ ContainsAnyCase(svgArgs.designation, StrHealth)

\* C10: in the footer markup of a createFinalPoster call, the second line is
\* the trimmed teamName (escaped for the markup, nothing appended, nothing
\* rewritten) when teamName is not blank, and the normalized designation
\* when teamName is empty or blank.
C10_TeamNameVerbatim ==
    \A c \in CallIds :
        loc[c].footerSVG.made =>
            LET person == args[c].person IN
            IF \E k \in 1..Len(person.teamName) : ~IsWhiteSpace(person.teamName[k])
            THEN loc[c].footerSVG.text[2] = escapeXml(trim(person.teamName))
            ELSE loc[c].footerSVG.text[2] = escapeXml(SecondLineFor(person.designation))

\* the footer of a person with a team name and a designation has been made
C10_Witness ==
    /\ loc[1].footerSVG.made
    /\ args[1].person.teamName # <<>>
    /\ trim(args[1].person.teamName) # args[1].person.teamName
    /\ args[1].person.designation = <<"H", "e", "a", "l", "t", "h">>

\* the parts of d between its commas, as pairs <<first, last>> of positions
CommaParts(d) ==
    LET cuts == {0, Len(d) + 1} \cup {k \in 1..Len(d) : d[k] = ","}
    IN  { <<a + 1, b - 1>> : <<a, b>> \in
            {<<a, b>> \in cuts \X cuts : a < b /\ \A k \in cuts : ~(a < k /\ k < b)} }

\* the parts that are a token "Team: X" with X not empty
TeamTokens(d) ==
    { part \in CommaParts(d) :
        /\ part[2] - part[1] + 1 > Len(StrTeamPrefix)
        /\ SubSeq(d, part[1], part[1] + Len(StrTeamPrefix) - 1) = StrTeamPrefix }

\* the label the specification hands to the engine for the designation d
EffectiveLabel(d) ==
    IF TeamTokens(d) = {} THEN d
    ELSE LET part == CHOOSE t \in TeamTokens(d) : \A u \in TeamTokens(d) : t[1] >= u[1]
         IN  SubSeq(d, part[1], part[2])

\* C11: the designation handed to the engine for a recipient is the last
\* "Team: X" token of the recipient's designation, or the designation itself
\* when it has none; and when there is such a token, it is the text of the
\* second footer line.
C11_LastTeamTokenDisplayed ==
    (recipient.made /\ pc[1] # "idle") =>
        /\ args[1].person.designation = EffectiveLabel(recipient.designation)
        /\ (loc[1].footerSVG.made /\ TeamTokens(recipient.designation) # {}) =>
               loc[1].footerSVG.text[2] = escapeXml(EffectiveLabel(recipient.designation))

\* what is handed to the engine is the last token, whatever is displayed
HandedLabelIsLastToken ==
    (recipient.made /\ pc[1] # "idle") =>
        args[1].person.designation = EffectiveLabel(recipient.designation)

\* C12: the left edge planned for the logo is at most width - logoSize - 24,
\* so its right edge is at most width - 24, for every width and every
\* measured width of the text layer.
C12_LogoWithinRightMargin ==
    (geom.made /\ geom.planned) =>
        /\ geom.plan.logoX <= geom.width - (geom.width * 15) \div 100 - 24
        /\ geom.plan.logoX + geom.plan.logoSize <= geom.width - 24

\* the clamp has acted: the text layer measured far wider than the template
C12_Witness ==
    /\ geom.made /\ geom.planned
    /\ geom.textMetadataWidth > geom.width
    /\ geom.plan.lineX + 4 + 16 > geom.plan.logoX

\* C14: textWidth is at least 120 and at least floor(0.38 w), and is
\* max(floor(0.38 w), w - textLeft - reservedRight) whenever that is at least
\* 120, with textLeft = 40 + floor(0.18 w) + 20 and reservedRight = 4 + 20 +
\* floor(0.15 w) + 24.
C14_TextWidthAtLeast ==
    (geom.made /\ geom.planned) =>
        LET w     == geom.width
            left  == 40 + (18 * w) \div 100 + 20
            right == 4 + 20 + (15 * w) \div 100 + 24
            rest  == w - left - right
            first == IF (38 * w) \div 100 >= rest THEN (38 * w) \div 100 ELSE rest
        IN  /\ geom.plan.textWidth >= 120
            /\ geom.plan.textWidth >= (38 * w) \div 100
            /\ first >= 120 => geom.plan.textWidth = first

\* a narrow template, for which the first formula gives less than 120
C14_Witness ==
    /\ geom.made /\ geom.planned
    /\ geom.width - geom.plan.textLeft - geom.plan.reservedRight < 120
    /\ (38 * geom.width) \div 100 < 120
    /\ geom.plan.textWidth = 120

\* C15: footerHeight is at least photoSize, logoSize and the height of the
\* four lines as the renderer lays them out, 4 * round(1.5 * fontSize); so
\* the vertical padding of the text block is not negative.
C15_FooterHoldsTallest ==
    (geom.made /\ geom.planned) =>
        LET w    == geom.width
            font == (22 * w + 500) \div 1000
            rendered == 4 * ((15 * font + 5) \div 10)
        IN  /\ geom.plan.footerHeight >= (18 * w) \div 100
            /\ geom.plan.footerHeight >= (15 * w) \div 100
            /\ geom.plan.footerHeight >= rendered
            /\ geom.plan.totalHeight = rendered
            /\ geom.plan.paddingTwice >= 0

\* the width createFinalPoster plans for, where the rendered text block (108)
\* is taller than the height reserved for the text (84)
C15_Witness ==
    /\ geom.made /\ geom.planned
    /\ geom.width = 800
    /\ geom.plan.totalHeight > geom.plan.requiredTextHeight
    /\ geom.plan.footerHeight = 162

\* the horizontal extent [left, left + width) of a layer of the footer band
Extent(layer) == [from |-> layer.left, to |-> layer.left + layer.input.w]

\* C13: in the footer band a call composites, the photo starts at 40 and is
\* photoSize wide, and the photo, the text layer, the divider and the logo
\* lie in this order from left to right, do not overlap, and are inside
\* [0, width).
C13_ExtentsDisjointInOrder ==
    \A c \in CallIds :
        loc[c].gradientFooterBuffer # NoImage =>
            LET band  == loc[c].gradientFooterBuffer
                photo == Extent(band.photo)
                text  == Extent(band.text)
                line  == Extent(band.line)
                logo  == Extent(band.logo)
            IN  /\ photo.from = 40
                /\ photo.to = 40 + (18 * band.w) \div 100
                /\ line.to = line.from + 4
                /\ logo.to = logo.from + (15 * band.w) \div 100
                /\ 0 <= photo.from /\ photo.from < photo.to
                /\ photo.to <= text.from /\ text.from < text.to
                /\ text.to <= line.from /\ line.from < line.to
                /\ line.to <= logo.from /\ logo.from < logo.to
                /\ logo.to <= band.w

\* a footer band has been composited for the template that was enlarged to
\* 800 and for the one that was reduced to it
C13_Witness ==
    /\ loc[1].gradientFooterBuffer # NoImage
    /\ args[1].templatePath = TemplateB
    /\ loc[1].gradientFooterBuffer.w = 800
    /\ loc[1].gradientFooterBuffer.logo.left = 656

\* C16: the canvas a successful call writes is as wide as the resized
\* template and as high as the resized template and the footer band together;
\* the template is at top 0 and the band right below it, so the two cover the
\* canvas without gap or overlap.
C16_CanvasIsTemplatePlusFooter ==
    \A c \in CallIds :
        pc[c] = "done" =>
            LET poster == files[args[c].outputPath]
                t == poster.template
                f == poster.footer
            IN  /\ poster.kind = "poster"
                /\ t.input = loc[c].templateResized
                /\ poster.w = t.input.w
                /\ poster.h = t.input.h + f.input.h
                /\ f.input.h = geomFooterHeight(t.input.w)
                /\ t.top = 0 /\ t.left = 0
                /\ f.top = t.input.h /\ f.left = 0
                /\ f.input.w = poster.w

\* the poster of the narrow template, 800 wide and 1120 + 162 high
C16_Witness ==
    /\ pc[1] = "done"
    /\ args[1].templatePath = TemplateB
    /\ files[args[1].outputPath].w = 800
    /\ files[args[1].outputPath].h = 1282

\* C17: as long as a call has not written its outputPath, every file is what
\* it was when the call began; and when the call has ended, the only file
\* that differs from then is outputPath, and only after a success.
C17_OnlyOutputPathChanges ==
    \A c \in CallIds :
        pc[c] # "idle" =>
            /\ hist[c].outWrites = 0 => files = hist[c].filesBefore
            /\ pc[c] \in {"done", "failed"} =>
                   \A p \in AllPaths :
                       files[p] # hist[c].filesBefore[p] =>
                           (p = args[c].outputPath /\ pc[c] = "done")

\* the second half of C17 on its own: the files after the call has ended
FilesAfterCallAreAsBefore ==
    \A c \in CallIds :
        pc[c] \in {"done", "failed"} =>
            \A p \in AllPaths :
                files[p] # hist[c].filesBefore[p] =>
                    (p = args[c].outputPath /\ pc[c] = "done")

\* the call in progress repeats, with the same arguments, the call that
\* failed just before it
RetryOfFailedCall(c) ==
    /\ lastCall.tracked /\ lastCall.ended
    /\ lastCall.status = "failed"
    /\ lastCall.args = args[c]

\* C18: a call that repeats a failed call with the same arguments, and in
\* which no operation fails for an outside reason, ends as a first call with
\* these arguments ends: with the same error, or with the same poster written.
C18_RetryBehavesLikeFirstCall ==
    \A c \in CallIds :
        (pc[c] \in {"done", "failed"} /\ ~hist[c].envFault /\ RetryOfFailedCall(c)) =>
            /\ Outcome(c) = AloneOutcome(args[c])
            /\ pc[c] = "done" => files[args[c].outputPath] = AloneOutcome(args[c]).written

\* the failed call left the temporary copy of the template behind, and the
\* repeated call has written its poster
C18_Witness ==
    /\ pc[1] = "done"
    /\ RetryOfFailedCall(1)
    /\ hist[1].filesBefore[tempTemplatePath(args[1].templatePath)] # Absent
    /\ files[args[1].outputPath] = loc[1].finalImageBuffer

\* C19: two posters written in the life of the process from the same
\* template, person and logo have the same content: the same geometry, lines,
\* font size and markup.
C19_SameInputsSamePoster ==
    produced.tracked =>
        \A p, q \in produced.posters :
            ( /\ p.templatePath = q.templatePath
              /\ p.person = q.person
              /\ p.logoPath = q.logoPath ) => p.content = q.content

\* the same inputs have been written to both output paths, after posters of
\* other inputs
C19_Witness ==
    /\ produced.tracked
    /\ Cardinality(produced.posters) >= 3
    /\ files["output/final_1.jpeg"] # Absent
    /\ files["output/final_1.jpeg"] = files["output/final_2.jpeg"]
    /\ pc[1] = "done"

\* the stages of a poster call, in the order they are to run
ClaimedOrder ==
    << "validate", "resize template", "plan geometry", "render footer text",
       "mask photo", "resize logo", "place divider and logo",
       "composite footer band", "composite final canvas", "write" >>

\* the stage each operation of the call belongs to
ClaimedStageOf ==
    [ validateParameters |-> 1, validatePerson |-> 1, validateTemplate |-> 1,
      copyFile |-> 2, resizeTemplate |-> 2, unlinkTemp |-> 2,
      templateMetadata |-> 3,
      textRender |-> 4, textMetadata |-> 4,
      photoMask |-> 5, logoResize |-> 6, divider |-> 7, footerBand |-> 8,
      finalComposite |-> 9, write |-> 10 ]

\* the operations completed so far are all different, go through the stages
\* in order and skip none
StagesInClaimedOrder(c) ==
    LET done == hist[c].stages IN
    /\ \A i, j \in 1..Len(done) : i < j => done[i] # done[j]
    /\ \A i \in 1..Len(done) : ClaimedStageOf[done[i]] \in 1..Len(ClaimedOrder)
    /\ Len(done) > 0 => ClaimedStageOf[done[1]] = 1
    /\ \A i \in 1..(Len(done) - 1) :
           ClaimedStageOf[done[i + 1]] \in {ClaimedStageOf[done[i]], ClaimedStageOf[done[i]] + 1}

\* the operation a failed call was at when it failed
FailedAt(c) == stageOrder[Len(hist[c].stages) - 2]

\* C20: the operations of a call go through the stages validate, resize
\* template, plan geometry, render footer text, mask photo, resize logo, place
\* divider and logo, composite footer band, composite final canvas, write, in
\* this order, each operation at most once; once a call has failed it has an
\* error, the error of the operation it failed at, it completes no further
\* operation and keeps this error until it returns.
C20_StagesInOrderStopAtFailure ==
    [][ \A c \in CallIds :
          /\ StagesInClaimedOrder(c)
          /\ pc[c] = "done" => ClaimedStageOf[hist[c].stages[Len(hist[c].stages)]] = Len(ClaimedOrder)
          /\ pc[c] = "failed" =>
               /\ err[c] # NoError
               /\ hist[c].envFault => err[c] = MsgStageFailed(FailedAt(c))
               /\ ~hist[c].envFault => err[c] = AloneOutcome(args[c]).err
               /\ pc'[c] \in {"failed", "idle"}
               /\ pc'[c] = "failed" =>
                    /\ hist'[c].stages = hist[c].stages
                    /\ err'[c] = err[c]
                    /\ loc'[c] = loc[c]
      ]_vars

\* a call has failed at the photo mask, after the footer text was rendered
C20_Witness ==
    /\ pc[1] = "failed"
    /\ ~hist[1].envFault
    /\ Len(hist[1].stages) = 9
    /\ hist[1].stages[9] = "textMetadata"
    /\ loc[1].textBuffer # NoImage
    /\ loc[1].circularPhoto = NoImage

\* C23: the font-fitting loop ends for every base font size, width and line
\* lengths; a pass through the body that stays in the loop leaves a strictly
\* smaller size, and no pass is begun at size 12 or below.
C23_FitLoopTerminates ==
    /\ <>(fitPc = "done")
    /\ [](fitPc = "loop" => allFontSize > 12)
    /\ [][ (fitPc = "loop" /\ fitPc' = "loop") => allFontSize' < allFontSize ]_vars

\* the loop has ended at the floor with a first line that is too wide at
\* every size
C23_Witness ==
    /\ fitPc = "done"
    /\ allFontSize = 12
    /\ fitArgs.fontSize = MaxFontSize
    /\ fitArgs.lens[1] * 12 * 55 > FitWidth * 100

\* startY of generateFooterSVG, in tenths of a pixel, for a line height h
StartY10(h) == 5 * (svgArgs.footerHeight - 4 * h) + 6 * h

\* C24: generateFooterSVG emits exactly four lines: the name, the formatted
\* designation or the team label, the tagline of three checkmark items, and
\* "Phone: " with the phone, in this order, also for empty name, designation
\* and phone; only the second is italic; line k (from 0) is at
\* startY + k * lineHeight.
C24_FourLinesInFixedOrder ==
    svgOut.made =>
        LET h == (3 * svgArgs.fontSize + 1) \div 2 IN
        /\ Len(svgOut.text) = 4
        /\ Unescape(svgOut.text[1]) = svgArgs.name
        /\ Unescape(svgOut.text[2]) =
              (IF svgArgs.isTeamName THEN trim(svgArgs.designation)
               ELSE SecondLineFor(svgArgs.designation))
        /\ svgOut.text[3] =
              <<"U+2714", "U+FE0F", " ", "I", "n", "v", "e", "s", "t", "m", "e", "n", "t", "s", " ",
                "U+2714", "U+FE0F", " ", "I", "n", "s", "u", "r", "a", "n", "c", "e", " ",
                "U+2714", "U+FE0F", " ", "P", "r", "o", "p", "e", "r", "t", "i", "e", "s">>
        /\ Unescape(svgOut.text[4]) = <<"P", "h", "o", "n", "e", ":", " ">> \o svgArgs.phone
        /\ svgOut.italicLines = {2}
        /\ DOMAIN svgOut.y10 = 1..4
        /\ \A k \in 0..3 : svgOut.y10[k + 1] = StartY10(h) + k * 10 * h

\* the markup of a call with an empty name, designation and phone
C24_Witness ==
    /\ svgOut.made
    /\ svgArgs.name = <<>>
    /\ svgArgs.designation = <<>>
    /\ svgArgs.phone = <<>>
    /\ ~svgArgs.isTeamName
    /\ Len(svgOut.text[2]) > 0

\* a layer of the given height placed at top lies inside a band of height fh
\* and is centred in it to within one pixel
CentredInBand(top, height, fh) ==
    /\ 2 * top <= fh - height
    /\ fh - height < 2 * top + 2
    /\ top >= 0
    /\ top + height <= fh

\* C25: for every template width, the photo, the text layer, the divider and
\* the logo are placed on the footer band at top = floor((footerHeight -
\* height) / 2), which is not negative and leaves the layer inside the band.
C25_LayersCentredInBand ==
    geom.planned =>
        LET p == geom.plan IN
        /\ CentredInBand(p.photoTop, p.photoSize, p.footerHeight)
        /\ CentredInBand(p.textTop, p.textMetadataHeight, p.footerHeight)
        /\ CentredInBand(p.lineY, p.lineHeightSVG, p.footerHeight)
        /\ CentredInBand(p.logoTop, p.logoSize, p.footerHeight)
        /\ p.lineHeightSVG = p.logoSize

\* the band of the 800-pixel template: photo at 9, divider and logo at 21
C25_Witness ==
    /\ geom.planned
    /\ geom.width = 800
    /\ geom.plan.footerHeight = 162
    /\ geom.plan.photoTop = 9
    /\ geom.plan.lineY = 21
    /\ geom.plan.logoTop = 21

\* C30: whenever max(floor(0.38 w), w - textLeft - reservedRight) is below
\* 120, the fallback max(120, floor(0.35 w)) is exactly 120: floor(0.38 w) is
\* below 120 and floor(0.35 w) is not above 120.
C30_FallbackIsExactly120 ==
    geom.planned =>
        LET w     == geom.width
            rest  == w - (40 + (18 * w) \div 100 + 20) - (4 + 20 + (15 * w) \div 100 + 24)
            first == IF (38 * w) \div 100 >= rest THEN (38 * w) \div 100 ELSE rest
        IN  first < 120 =>
              /\ geom.plan.textWidth = 120
              /\ (38 * w) \div 100 < 120
              /\ geom.plan.fallbackFloor <= 120

\* the 300-pixel template: the first formula gives 114, floor(0.35 w) is 105
C30_Witness ==
    /\ geom.planned
    /\ geom.width = 300
    /\ geom.plan.fallbackFloor = 105
    /\ geom.plan.textWidth = 120

RECURSIVE TwoToThe(_)
TwoToThe(n) == IF n = 0 THEN 1 ELSE 2 * TwoToThe(n - 1)

\* C27: retryOperation calls the operation at most maxRetries times; it
\* returns the value of the first attempt that resolves, and that attempt is
\* its last; when maxRetries attempts have rejected it throws the error of
\* the last; the k-th wait is delay * 2^(k-1) and comes after the k-th
\* rejected attempt, and there is none after the final attempt.
C27_RetryAtMostMaxRetries ==
    retry.pc # "idle" =>
        /\ retry.calls <= retry.maxRetries
        /\ retry.pc = "returned" =>
              /\ retry.returned = <<"value of attempt", retry.calls>>
              /\ Len(retry.waits) = retry.calls - 1
        /\ (retry.pc = "thrown" /\ retry.maxRetries >= 1) =>
              /\ retry.calls = retry.maxRetries
              /\ retry.thrown = <<"error of attempt", retry.maxRetries>>
              /\ Len(retry.waits) = retry.maxRetries - 1
        /\ \A k \in 1..Len(retry.waits) :
              retry.waits[k] = retry.delayGiven * TwoToThe(k - 1)
        /\ Len(retry.waits) <= retry.calls
        /\ retry.pc = "operation" => Len(retry.waits) = retry.calls
        /\ Len(retry.waits) < Max(retry.maxRetries, 1)

\* three attempts with delay 1000: two waits, of 1000 and 2000, then the
\* error of the third attempt is thrown
C27_Witness ==
    /\ retry.pc = "thrown"
    /\ retry.maxRetries = 3
    /\ retry.calls = 3
    /\ retry.waits = <<1000, 2000>>

\* C22: when a /api/register request has been answered, whatever the answer,
\* neither the file multer stored for it nor its processed photo is in
\* uploads/.
C22_RegisterLeavesNoFile ==
    \A r \in ReqIds :
        (reqs[r].handler = "register" /\ reqs[r].pc = "done") =>
            /\ <<"uploads/multer", r>> \notin uploads
            /\ <<"uploads/processed", r>> \notin uploads

\* a registration went through all its steps and its files are gone
RegisterSucceededClean ==
    \E r \in ReqIds :
        /\ reqs[r].handler = "register" /\ reqs[r].pc = "done"
        /\ reqs[r].status = 200
        /\ uploads = {}

\* the request of slot r has been answered with an error and this step is
\* its answer
AnsweredWithError(r) ==
    /\ reqs[r].pc # "done"
    /\ reqs'[r].pc = "done"
    /\ reqs'[r].status >= 400

\* C28: no two user records have the same email, whatever the interleaving
\* of /api/register, /api/admin/users and PUT /api/users/:id (and of the
\* photo handlers); the step of a request that would insert a record with an
\* email already in the store, or move a record onto the email of another
\* record, answers with an error and leaves the store as it was.
C28_EmailsUnique ==
    /\ [](\A u, v \in users : u.email = v.email => u = v)
    /\ [][ \A r \in ReqIds :
             ( /\ reqs[r].handler \in {"register", "adminCreateUser", "putUser"}
               /\ reqs[r].pc \in {"createUser", "updateUser"}
               /\ reqs'[r].pc = "done"
               /\ \E u \in users : /\ u.email = reqs[r].in.email
                                   /\ (reqs[r].handler = "putUser" => u.id # reqs[r].in.id) )
             => (AnsweredWithError(r) /\ users' = users) ]_vars

\* both requests passed the duplicate check with the same email; one has
\* inserted its record and the other has been refused by the store
C28_Witness ==
    /\ reqs[1].handler = "register" /\ reqs[1].pc = "done" /\ reqs[1].status = 200
    /\ reqs[2].handler = "adminCreateUser" /\ reqs[2].pc = "done" /\ reqs[2].status = 500
    /\ reqs[1].in.email = reqs[2].in.email
    /\ reqs[1].in.id # reqs[2].in.id
    /\ Cardinality(users) = 1

\* C29: a request to /api/admin/migrate-photo or PUT /api/users/:id/photo is
\* past the isAdmin guard only if it carries the signed admin_token cookie of
\* a login; without it the request is answered 403.
C29_AdminOnlyWithCookie ==
    \A r \in ReqIds :
        (reqs[r].handler \in {"migratePhoto", "putUserPhoto"} /\ reqs[r].pc # "idle") =>
            \/ reqs[r].in.cookie = "signedByLogin"
            \/ reqs[r].pc = "done" /\ reqs[r].status = 403

\* a request without the cookie has changed a user record
AdminChangeWithoutCookie ==
    \E r \in ReqIds :
        /\ reqs[r].handler = "migratePhoto" /\ reqs[r].pc = "done" /\ reqs[r].status = 200
        /\ reqs[r].in.cookie = "none"
        /\ \E u \in users : u.photoUrl = "/p.jpg"

\* C21: when a /api/send-posters request has been answered, whatever the
\* answer, the uploaded template, its temporary copy, the downloaded photo and
\* the poster files are all gone.
C21_RequestLeavesNoFile ==
    sendReq.pc = "done" =>
        /\ files[sendReq.template] = [kind |-> "absent"]
        /\ files[sendReq.template \o "_temp"] = [kind |-> "absent"]
        /\ files["uploads/u1_gcs.jpeg"] = [kind |-> "absent"]
        /\ \A o \in {"output/final_1.jpeg", "output/final_2.jpeg"} :
              files[o] = [kind |-> "absent"]

\* posters were sent and everything the request created has been removed
RequestSentAndClean ==
    /\ sendReq.pc = "done"
    /\ sendReq.status = 200
    /\ sendReq.recipientCount >= 1
    /\ files[sendReq.template] = [kind |-> "absent"]
    /\ files[sendReq.template \o "_temp"] = [kind |-> "absent"]

\* the number of entries of a sequence that are equal to x
Occurrences(seq, x) == Cardinality({k \in 1..Len(seq) : seq[k] = x})

\* C26: the recipients are dealt with one after another; a recipient that is
\* skipped, or whose poster or email fails, does not stop the loop: when the
\* request is answered 200 every recipient found has been dealt with; the
\* recipientCount is the number of recipients whose poster was made and
\* mailed, and is not more than the number of recipients found.
C26_LoopGoesOnAndCountsSent ==
    /\ sendReq.pc \notin {"idle", "start", "query", "done"} =>
          /\ sendReq.i \in 1..Len(sendReq.recipients)
          /\ Len(sendReq.outcomes) \in {sendReq.i - 1, sendReq.i}
          /\ sendReq.pc = "cleanup" <=> Len(sendReq.outcomes) = sendReq.i
    /\ (sendReq.pc = "done" /\ sendReq.recipients # <<>>) =>
          /\ sendReq.status = 200
          /\ Len(sendReq.outcomes) = Len(sendReq.recipients)
          /\ sendReq.recipientCount = Occurrences(sendReq.outcomes, "sent")
          /\ sendReq.recipientCount <= Len(sendReq.recipients)

\* the first recipient's poster failed, the second was mailed, and the
\* request answered with a count of one
C26_Witness ==
    /\ sendReq.pc = "done"
    /\ sendReq.outcomes = <<"posterFailed", "sent">>
    /\ sendReq.recipientCount = 1

====
